---- MODULE Spec2Model ----
(***************************************************************************)
(* Social Wallet API: the wallet ledger (WalletService), the gift and      *)
(* Stripe flows built on it (GiftService, StripeService), the OAuth        *)
(* authorization broker (OAuthService), subscriptions, the rate limiter    *)
(* and sharing permissions (PrivacyService), as state machines over the    *)
(* tables of the relational store.                                         *)
(*                                                                         *)
(* Spec      wallet and gift requests run one at a time: one action per    *)
(*           service method.                                               *)
(* SpecPay   payment requests run one at a time.                           *)
(* SpecConc  two connections send one wallet request each; the requests    *)
(*           interleave at their database statements. Every                *)
(*           prisma.$transaction(async tx => ...) of WalletService is its  *)
(*           own READ COMMITTED transaction: a read step (findUnique) and  *)
(*           a later write step (update, create, commit).                  *)
(* SpecOAuth authorization and token requests run one at a time, and the   *)
(*           clock advances.                                               *)
(* SpecOAuthConc  two connections exchange an issued code; the requests    *)
(*           interleave at their database statements.                      *)
(* SpecToken  one code has been issued; it is exchanged, and the token is  *)
(*           refreshed, validated and revoked while the client is          *)
(*           suspended and reactivated, the user deactivated, and the      *)
(*           clock advances by the hour.                                   *)
(* SpecGift  a funded sender sends gifts while platforms create gift       *)
(*           types and set their marketplace share.                        *)
(* SpecPayConc  a pending payment is completed by handlePaymentSuccess,    *)
(*           step by step, next to other credits.                          *)
(* SpecAuthorize  authorization requests, for clients that are suspended   *)
(*           and reactivated, while the clock advances.                    *)
(* SpecRate  two connections pass enforceSubscriptionLimits, interleaving  *)
(*           at the redis get and setEx.                                   *)
(* SpecLedger  wallet, gift and payment requests together, one at a time.  *)
(* SpecSuspend  two connections run code exchanges and refreshes step by   *)
(*           step while clients are suspended and reactivated and tokens   *)
(*           validated.                                                    *)
(* SpecPrivacy  PrivacyService: sharing permissions are updated and        *)
(*           revoked among token requests, one request at a time.          *)
(*                                                                         *)
(* The variables are the tables, the clock, the redis counters and, per    *)
(* connection, the position of its request; admitted and revoked are       *)
(* history variables read by the properties only.                          *)
(***************************************************************************)
EXTENDS Integers, Sequences, FiniteSets, TLC

\* ------------------------------------------------------------------ bounds
MaxCoins == 2
MaxLedger == 2
MaxUSD == 1
MaxCodes == 1
MaxTicks == 2
MaxRefreshes == 2

Users == {"u1", "u2"}
Amounts == (0..MaxCoins) \cup {25}
Conns == {"a", "b"}
Gifts == {"heart", "fire"}
Platforms == {"p1", "p2"}
PaymentIds == {"pi_1"}
Quantities == {0, 1, 2}
Clients == Platforms
Owners == {"u1"}
RedirectUris == {"https://p/cb", "https://q/cb"}
ScopeSets == {{"profile"}, {"profile", "media"}}
TickMinutes == {10}
LongTickMinutes == {60}
TokenValues == 1..(2 * (MaxCodes + MaxRefreshes))

\* ------------------------------------------------------------------ program constants
GiftMaxQuantity == 100
DefaultRevenueSharePct == 10
MinAmountUSD == 1
MaxAmountUSD == 1000
CoinsPerUSD == 100
CodeTtlMinutes == 10
TokenTtlMinutes == 60

VARIABLES
  wallet,          \* table wallets: one row per user (exists = FALSE: no row)
  ledger,          \* table wallet_transactions, per wallet, in creation order
  giftType,        \* table gift_types
  giftTransaction, \* table gift_transactions, in creation order
  marketplace,     \* table gift_marketplace: per platform, revenue share in percent
  stripePayment,   \* table stripe_payments, by stripePaymentId
  apiClient,       \* table api_clients, by id (the model's clientKey is the id)
  subscription,    \* table subscriptions: per client, subscriptionStatus
  user,            \* table users: per user, isActive
  authorizationCode, \* table authorization_codes, in creation order; code k is row k
  accessToken,     \* table access_tokens, in creation order
  now,             \* the clock, in minutes
  ticks,           \* number of clock advances so far
  minted,          \* number of random token values drawn so far
  issued,          \* history: per code, the tokens created by exchanging it
  origin,          \* history: per access_tokens row, the code it was created from
  reply,           \* SpecOAuth: what the last OAuth request returned or threw
  last,            \* Spec: what the last request returned or threw
  pc,              \* SpecConc: per connection, the statement it is about to run
  ctx,             \* SpecConc: per connection, the request's arguments and locals
  ret,             \* SpecConc: per connection, how its last request ended
  started,         \* SpecConc: number of requests sent so far
  redis,           \* the rate limit counters, by <<client, minute>> (no key: absent)
  admitted,        \* history: per <<client, minute>>, the requests let through
  revoked,         \* history: the token values a suspension or a revocation deleted
  sharingPermission \* table sharing_permissions, by <<user, client>>

dbVars == <<wallet, ledger, giftType, giftTransaction, marketplace, stripePayment>>
oauthVars == <<apiClient, subscription, user, authorizationCode, accessToken, now,
              ticks, minted, issued, origin, reply>>
concVars == <<pc, ctx, ret, started>>
sideVars == <<redis, admitted, revoked, sharingPermission>>
vars == <<wallet, ledger, giftType, giftTransaction, marketplace, stripePayment,
          apiClient, subscription, user, authorizationCode, accessToken, now, ticks,
          minted, issued, origin, reply, last, pc, ctx, ret, started, redis, admitted,
          revoked, sharingPermission>>

\* ------------------------------------------------------------------ rows
NoWallet ==
  [exists |-> FALSE, balanceCoins |-> 0, totalSpent |-> 0, totalEarned |-> 0,
   isLocked |-> FALSE]

\* prisma.wallet.create({ data: { userId, balanceCoins: 0, totalSpent: 0, totalEarned: 0 } })
NewWallet ==
  [exists |-> TRUE, balanceCoins |-> 0, totalSpent |-> 0, totalEarned |-> 0,
   isLocked |-> FALSE]

\* The tables as one value, so that a service method is a function of it.
DB ==
  [wallet |-> wallet, ledger |-> ledger, giftType |-> giftType,
   giftTransaction |-> giftTransaction, marketplace |-> marketplace,
   stripePayment |-> stripePayment]

Store(d) ==
  /\ wallet' = d.wallet
  /\ ledger' = d.ledger
  /\ giftType' = d.giftType
  /\ giftTransaction' = d.giftTransaction
  /\ marketplace' = d.marketplace
  /\ stripePayment' = d.stripePayment

\* what a service method returns: the tables it leaves, and the code of the
\* error it threw ("OK": it returned), with the details createError carries
Returned(d) == [db |-> d, error |-> "OK", required |-> 0, available |-> 0]

Thrown(d, code) == [db |-> d, error |-> code, required |-> 0, available |-> 0]

\* ------------------------------------------------------------------ WalletService.addCoins
\* the row the transaction works on: the one found, or the one it creates
addCoinsWallet(snap) == IF snap.exists THEN snap ELSE NewWallet

addCoinsNewBalance(snap, coins) == addCoinsWallet(snap).balanceCoins + coins

\* tx.wallet.update: balanceCoins and totalEarned are written as absolute values
\* computed from the row read earlier; the other columns keep their stored value
addCoinsUpdate(cur, snap, coins) ==
  [(IF cur.exists THEN cur ELSE NewWallet) EXCEPT
     !.balanceCoins = addCoinsNewBalance(snap, coins),
     !.totalEarned = addCoinsWallet(snap).totalEarned + coins]

addCoinsEntry(snap, coins, type, referenceType, referenceId) ==
  [type |-> type, amount |-> coins, balanceAfter |-> addCoinsNewBalance(snap, coins),
   referenceType |-> referenceType, referenceId |-> referenceId]

\* the write with the ledger row stored over the wallet's latest row
addCoinsWriteOver(d, snap, userId, coins, type, referenceType, referenceId) ==
  IF ~snap.exists /\ d.wallet[userId].exists
  THEN Thrown(d, "P2002")
  ELSE Returned([d EXCEPT
                   !.wallet[userId] = addCoinsUpdate(@, snap, coins),
                   !.ledger[userId] =
                      IF @ = <<>>
                      THEN <<addCoinsEntry(snap, coins, type, referenceType, referenceId)>>
                      ELSE [@ EXCEPT ![Len(@)] =
                              addCoinsEntry(snap, coins, type, referenceType, referenceId)]])

\* the write half of the transaction, run against the tables as they are now,
\* with the row `snap` that findUnique returned. A wallet created by someone
\* else since the read makes tx.wallet.create hit the unique index on userId.
addCoinsWrite(d, snap, userId, coins, type, referenceType, referenceId) ==
  IF ~snap.exists /\ d.wallet[userId].exists
  THEN Thrown(d, "P2002")
  ELSE Returned([d EXCEPT
                   !.wallet[userId] = addCoinsUpdate(@, snap, coins),
                   !.ledger[userId] =
                      Append(@, addCoinsEntry(snap, coins, type, referenceType, referenceId))])

addCoins(d, userId, coins, type, referenceType, referenceId) ==
  IF coins <= 0
  THEN Thrown(d, "INVALID_AMOUNT")
  ELSE addCoinsWrite(d, d.wallet[userId], userId, coins, type, referenceType, referenceId)

\* ------------------------------------------------------------------ WalletService.deductCoins
\* mutant: the balance check left out
deductCoinsCheckNoBalance(snap, coins) ==
  IF ~snap.exists THEN "WALLET_NOT_FOUND"
  ELSE IF snap.isLocked THEN "WALLET_LOCKED"
  ELSE "OK"

\* the checks without the test of isLocked
deductCoinsCheckNoLock(snap, coins) ==
  IF ~snap.exists THEN "WALLET_NOT_FOUND"
  ELSE IF snap.balanceCoins < coins THEN "INSUFFICIENT_BALANCE"
  ELSE "OK"

\* the checks made on the row read by findUnique, in the order of the code
deductCoinsCheck(snap, coins) ==
  IF ~snap.exists THEN "WALLET_NOT_FOUND"
  ELSE IF snap.isLocked THEN "WALLET_LOCKED"
  ELSE IF snap.balanceCoins < coins THEN "INSUFFICIENT_BALANCE"
  ELSE "OK"

\* mutant: the error thrown without its details
deductCoinsThrowNoDetails(d, snap, coins) == Thrown(d, deductCoinsCheck(snap, coins))

\* the error thrown for a failed check; INSUFFICIENT_BALANCE carries
\* { required: coins, available: wallet.balanceCoins }
deductCoinsThrow(d, snap, coins) ==
  IF deductCoinsCheck(snap, coins) = "INSUFFICIENT_BALANCE"
  THEN [db |-> d, error |-> "INSUFFICIENT_BALANCE", required |-> coins,
        available |-> snap.balanceCoins]
  ELSE Thrown(d, deductCoinsCheck(snap, coins))

deductCoinsNewBalance(snap, coins) == snap.balanceCoins - coins

deductCoinsUpdate(cur, snap, coins) ==
  [cur EXCEPT !.balanceCoins = deductCoinsNewBalance(snap, coins),
              !.totalSpent = snap.totalSpent + coins]

\* mutant: the amount recorded unsigned
deductCoinsEntryUnsigned(snap, coins, type, referenceType, referenceId) ==
  [type |-> type, amount |-> coins, balanceAfter |-> deductCoinsNewBalance(snap, coins),
   referenceType |-> referenceType, referenceId |-> referenceId]

deductCoinsEntry(snap, coins, type, referenceType, referenceId) ==
  [type |-> type, amount |-> -coins, balanceAfter |-> deductCoinsNewBalance(snap, coins),
   referenceType |-> referenceType, referenceId |-> referenceId]

deductCoinsWrite(d, snap, userId, coins, type, referenceType, referenceId) ==
  Returned([d EXCEPT
              !.wallet[userId] = deductCoinsUpdate(@, snap, coins),
              !.ledger[userId] =
                 Append(@, deductCoinsEntry(snap, coins, type, referenceType, referenceId))])

deductCoins(d, userId, coins, type, referenceType, referenceId) ==
  IF coins <= 0
  THEN Thrown(d, "INVALID_AMOUNT")
  ELSE IF deductCoinsCheck(d.wallet[userId], coins) # "OK"
  THEN deductCoinsThrow(d, d.wallet[userId], coins)
  ELSE deductCoinsWrite(d, d.wallet[userId], userId, coins, type, referenceType, referenceId)

\* ------------------------------------------------------------------ WalletService, the rest
\* getWalletBalance: createWallet when there is no row
getWalletBalance(d, userId) ==
  IF d.wallet[userId].exists THEN Returned(d)
  ELSE Returned([d EXCEPT !.wallet[userId] = NewWallet])

\* prisma.wallet.update({ where: { userId }, data: { isLocked } }) throws
\* P2025 when there is no row
setLocked(d, userId, flag) ==
  IF ~d.wallet[userId].exists THEN Thrown(d, "P2025")
  ELSE Returned([d EXCEPT !.wallet[userId].isLocked = flag])

lockWallet(d, userId) == setLocked(d, userId, TRUE)

unlockWallet(d, userId) == setLocked(d, userId, FALSE)

\* transferCoins: the outer $transaction's tx is never used; deductCoins and
\* addCoins each run and commit their own transaction on the global client
transferCoinsCredit(d, toUserId, coins, transferId) ==
  addCoins(d, toUserId, coins, "GIFT_RECEIVED", "peer_transfer", transferId)

transferCoins(d, fromUserId, toUserId, coins, transferId) ==
  IF fromUserId = toUserId THEN Thrown(d, "INVALID_TRANSFER")
  ELSE IF coins <= 0 THEN Thrown(d, "INVALID_AMOUNT")
  ELSE LET r == deductCoins(d, fromUserId, coins, "GIFT_SENT", "peer_transfer", transferId)
       IN IF r.error # "OK" THEN r
          ELSE transferCoinsCredit(r.db, toUserId, coins, transferId)

\* ------------------------------------------------------------------ GiftService.sendGift
NoGift ==
  [isActive |-> FALSE, platformId |-> "null", priceCoins |-> 0, isLimited |-> FALSE,
   maxQuantity |-> 0, soldQuantity |-> 0]

findGiftType(d, giftTypeId) ==
  IF giftTypeId \in DOMAIN d.giftType THEN d.giftType[giftTypeId] ELSE NoGift

\* Math.round of the non-negative rational num / den
MathRound(num, den) == (2 * num + den) \div (2 * den)

\* marketplace?.revenueShare || 0.1, in percent: no row, or a share of 0, is 10%
platformFeeRate(d, platformId) ==
  IF platformId \in DOMAIN d.marketplace /\ d.marketplace[platformId] # 0
  THEN d.marketplace[platformId]
  ELSE DefaultRevenueSharePct

totalGiftCost(gift, quantity) == gift.priceCoins * quantity

platformFee(d, gift, platformId, quantity) ==
  MathRound(totalGiftCost(gift, quantity) * platformFeeRate(d, platformId), 100)

\* socialWalletFeeRate = 0.015
socialWalletFee(gift, quantity) == MathRound(totalGiftCost(gift, quantity) * 15, 1000)

\* the sender charged the gift total only
totalCostNoFee(gift, quantity) == totalGiftCost(gift, quantity)

totalCost(gift, quantity) == totalGiftCost(gift, quantity) + socialWalletFee(gift, quantity)

\* the receiver's amount computed from fees rounded down instead of the fees charged
receiverAmountFloor(d, gift, platformId, quantity) ==
  totalGiftCost(gift, quantity)
    - ((totalGiftCost(gift, quantity) * platformFeeRate(d, platformId)) \div 100)
    - ((totalGiftCost(gift, quantity) * 15) \div 1000)

receiverAmount(d, gift, platformId, quantity) ==
  totalGiftCost(gift, quantity) - platformFee(d, gift, platformId, quantity)
    - socialWalletFee(gift, quantity)

\* the checks before the transaction
sendGiftCheck(gift, fromUserId, toUserId, platformId, quantity) ==
  IF fromUserId = toUserId THEN "INVALID_RECIPIENT"
  ELSE IF quantity <= 0 \/ quantity > GiftMaxQuantity THEN "INVALID_QUANTITY"
  ELSE IF ~gift.isActive THEN "GIFT_NOT_FOUND"
  ELSE IF gift.platformId # "null" /\ gift.platformId # platformId THEN "GIFT_NOT_AVAILABLE"
  ELSE IF gift.isLimited /\ gift.maxQuantity # 0
          /\ gift.maxQuantity - gift.soldQuantity < quantity THEN "INSUFFICIENT_QUANTITY"
  ELSE "OK"

giftTransactionRow(d, gift, fromUserId, toUserId, giftTypeId, platformId, quantity, transactionId) ==
  [fromUserId |-> fromUserId, toUserId |-> toUserId, giftTypeId |-> giftTypeId,
   platformId |-> platformId, quantity |-> quantity,
   totalCoins |-> totalGiftCost(gift, quantity), transactionId |-> transactionId,
   platformFee |-> platformFee(d, gift, platformId, quantity),
   socialWalletFee |-> socialWalletFee(gift, quantity), status |-> "COMPLETED"]

\* the two statements made on tx, committed together when the callback returns:
\* the audit row, and soldQuantity: { increment: quantity } for a limited gift
sendGiftCommit(d, gift, fromUserId, toUserId, giftTypeId, platformId, quantity, transactionId) ==
  [d EXCEPT
     !.giftTransaction =
        Append(@, giftTransactionRow(d, gift, fromUserId, toUserId, giftTypeId,
                                     platformId, quantity, transactionId)),
     !.giftType[giftTypeId].soldQuantity =
        IF gift.isLimited THEN @ + quantity ELSE @]

\* the callback of prisma.$transaction: deductCoins and addCoins run on the
\* global client, each in its own transaction, and are committed when they return
sendGiftTransaction(d, gift, fromUserId, toUserId, giftTypeId, platformId, quantity, transactionId) ==
  LET r1 == deductCoins(d, fromUserId, totalCost(gift, quantity), "GIFT_SENT",
                        "gift_transaction", transactionId)
  IN IF r1.error # "OK" THEN r1
     ELSE LET r2 == addCoins(r1.db, toUserId, receiverAmount(d, gift, platformId, quantity),
                             "GIFT_RECEIVED", "gift_transaction", transactionId)
          IN IF r2.error # "OK" THEN r2
             ELSE Returned(sendGiftCommit(r2.db, gift, fromUserId, toUserId, giftTypeId,
                                          platformId, quantity, transactionId))

sendGift(d, fromUserId, toUserId, giftTypeId, platformId, quantity, transactionId) ==
  LET gift == findGiftType(d, giftTypeId)
  IN IF sendGiftCheck(gift, fromUserId, toUserId, platformId, quantity) # "OK"
     THEN Thrown(d, sendGiftCheck(gift, fromUserId, toUserId, platformId, quantity))
     ELSE sendGiftTransaction(d, gift, fromUserId, toUserId, giftTypeId, platformId,
                              quantity, transactionId)

\* GiftService.createGiftType: the row created; soldQuantity starts at 0 and
\* isActive at true; maxQuantity is stored as sent, 0 included
createGiftType(d, giftId, platformId, priceCoins, isLimited, maxQuantity) ==
  Returned([d EXCEPT !.giftType =
     [g \in DOMAIN @ \cup {giftId} |->
        IF g = giftId
        THEN [isActive |-> TRUE, platformId |-> platformId, priceCoins |-> priceCoins,
              isLimited |-> isLimited, maxQuantity |-> maxQuantity, soldQuantity |-> 0]
        ELSE @[g]]])

\* MarketplaceService.enableMarketplace, the share in percent: the upsert of
\* the platform's row. disableMarketplace calls it with a share of 0.
enableMarketplace(d, clients, platformId, revenueShare) ==
  IF revenueShare < 0 \/ revenueShare > 100 THEN Thrown(d, "INVALID_REVENUE_SHARE")
  ELSE IF platformId \notin DOMAIN clients THEN Thrown(d, "PLATFORM_NOT_FOUND")
  ELSE Returned([d EXCEPT !.marketplace =
          [x \in DOMAIN @ \cup {platformId} |->
             IF x = platformId THEN revenueShare ELSE @[x]]])

\* ------------------------------------------------------------------ StripeService
NoPayment == [exists |-> FALSE, userId |-> "null", coins |-> 0, status |-> "null"]

findPayment(d, paymentId) ==
  IF paymentId \in DOMAIN d.stripePayment THEN d.stripePayment[paymentId] ELSE NoPayment

mapStripeStatusToPaymentStatus(stripeStatus) ==
  IF stripeStatus = "succeeded" THEN "SUCCEEDED"
  ELSE IF stripeStatus \in {"processing", "requires_payment_method",
                            "requires_confirmation", "requires_action"} THEN "PENDING"
  ELSE IF stripeStatus = "canceled" THEN "CANCELED"
  ELSE IF stripeStatus = "requires_capture" THEN "PENDING"
  ELSE "FAILED"

\* createPaymentIntent for a whole-dollar amount; paymentId and stripeStatus are
\* what stripe.paymentIntents.create answered
createPaymentIntent(d, userId, amount, paymentId, stripeStatus) ==
  IF amount < MinAmountUSD \/ amount > MaxAmountUSD THEN Thrown(d, "INVALID_AMOUNT")
  ELSE Returned([d EXCEPT !.stripePayment[paymentId] =
                   [exists |-> TRUE, userId |-> userId, coins |-> amount * CoinsPerUSD,
                    status |-> mapStripeStatusToPaymentStatus(stripeStatus)]])

\* handlePaymentSuccess for the event of payment intent paymentId, whose metadata
\* { userId, coins } are those createPaymentIntent stored with the intent
handlePaymentSuccessCredit(d, payment, paymentId) ==
  addCoins(d, payment.userId, payment.coins, "DEPOSIT", "stripe_payment", paymentId)

handlePaymentSuccess(d, paymentId) ==
  LET payment == findPayment(d, paymentId)
  IN IF ~payment.exists THEN Thrown(d, "P2025")
     ELSE LET r == handlePaymentSuccessCredit(d, payment, paymentId)
          IN IF r.error # "OK" THEN r
             ELSE Returned([r.db EXCEPT !.stripePayment[paymentId].status = "SUCCEEDED"])

refundId(paymentId) == "re_" \o paymentId

\* refundPayment: the status is written first, outside any transaction, then
\* deductCoins runs; its error leaves the status written
refundPayment(d, paymentId) ==
  LET payment == findPayment(d, paymentId)
  IN IF ~payment.exists THEN Thrown(d, "PAYMENT_NOT_FOUND")
     ELSE IF payment.status # "SUCCEEDED" THEN Thrown(d, "INVALID_PAYMENT_STATUS")
     ELSE deductCoins([d EXCEPT !.stripePayment[paymentId].status = "REFUNDED"],
                      payment.userId, payment.coins, "REFUND", "stripe_refund",
                      refundId(paymentId))

\* ------------------------------------------------------------------ OAuthService
\* the registered clients: both active, p1 with two callback urls, p2 with one
InitialClients ==
  [p1 |-> [isActive |-> TRUE, clientSecret |-> "secret_p1",
           callbackUrls |-> {"https://p/cb", "https://q/cb"}],
   p2 |-> [isActive |-> TRUE, clientSecret |-> "secret_p2",
           callbackUrls |-> {"https://q/cb"}]]

NoClient == [isActive |-> FALSE, clientSecret |-> "null", callbackUrls |-> {}]

NoCode ==
  [exists |-> FALSE, userId |-> "null", clientId |-> "null", redirectUri |-> "null",
   scopes |-> {}, expiresAt |-> 0, used |-> FALSE]

NoReply == [op |-> "none", error |-> "OK", code |-> 0, tokens |-> 0]

\* what the tables of the broker hold
Auth ==
  [apiClient |-> apiClient, subscription |-> subscription, user |-> user,
   minted |-> minted, origin |-> origin,
   authorizationCode |-> authorizationCode, accessToken |-> accessToken,
   issued |-> issued]

StoreAuth(a) ==
  /\ apiClient' = a.apiClient
  /\ subscription' = a.subscription
  /\ user' = a.user
  /\ minted' = a.minted
  /\ origin' = a.origin
  /\ authorizationCode' = a.authorizationCode
  /\ accessToken' = a.accessToken
  /\ issued' = a.issued

AuthReturned(a) == [auth |-> a, error |-> "OK"]

AuthThrown(a, code) == [auth |-> a, error |-> code]

\* prisma.apiClient.findFirst({ where: { clientKey, isActive: true } })
findActiveClient(a, clientId) ==
  IF clientId \in DOMAIN a.apiClient /\ a.apiClient[clientId].isActive
  THEN a.apiClient[clientId] ELSE NoClient

\* the checks without the test of userId: a code is created for no user
initiateAuthorizationCheckNoLogin(a, clientId, redirectUri, userId) ==
  IF ~findActiveClient(a, clientId).isActive THEN "INVALID_CLIENT"
  ELSE IF redirectUri \notin findActiveClient(a, clientId).callbackUrls
  THEN "INVALID_REDIRECT_URI"
  ELSE "OK"

\* initiateAuthorization's checks; no userId gives { requiresLogin: true }
initiateAuthorizationCheck(a, clientId, redirectUri, userId) ==
  IF ~findActiveClient(a, clientId).isActive THEN "INVALID_CLIENT"
  ELSE IF redirectUri \notin findActiveClient(a, clientId).callbackUrls
  THEN "INVALID_REDIRECT_URI"
  ELSE IF userId = "null" THEN "REQUIRES_LOGIN"
  ELSE "OK"

\* expiresAt = new Date(Date.now() + 10 * 60 * 1000)
codeExpiresAt(t) == t + CodeTtlMinutes

initiateAuthorization(a, t, clientId, redirectUri, scope, userId) ==
  IF initiateAuthorizationCheck(a, clientId, redirectUri, userId) # "OK"
  THEN AuthThrown(a, initiateAuthorizationCheck(a, clientId, redirectUri, userId))
  ELSE AuthReturned([a EXCEPT !.authorizationCode =
         Append(@, [exists |-> TRUE, userId |-> userId, clientId |-> clientId,
                    redirectUri |-> redirectUri, scopes |-> scope,
                    expiresAt |-> codeExpiresAt(t), used |-> FALSE])])

\* validateClient: the client by key, secret and isActive, then its active subscription
validateClient(a, clientId, clientSecret) ==
  IF ~(findActiveClient(a, clientId).isActive
       /\ findActiveClient(a, clientId).clientSecret = clientSecret)
  THEN "INVALID_CLIENT_CREDENTIALS"
  ELSE IF a.subscription[clientId] # "active" THEN "SUBSCRIPTION_INACTIVE"
  ELSE "OK"

\* prisma.authorizationCode.findUnique({ where: { code } })
findCode(a, code) ==
  IF code \in 1..Len(a.authorizationCode) /\ a.authorizationCode[code].exists
  THEN a.authorizationCode[code] ELSE NoCode

\* mutant: the used flag not checked
codeGrantCheckNoUsed(authCode, t, clientId, redirectUri) ==
  IF ~authCode.exists THEN "INVALID_CODE"
  ELSE IF authCode.expiresAt < t THEN "CODE_EXPIRED"
  ELSE IF authCode.clientId # clientId \/ authCode.redirectUri # redirectUri
  THEN "CODE_VALIDATION_FAILED"
  ELSE "OK"

\* mutant: the expiry checked after the client and the redirect uri
codeGrantCheckExpiryLast(authCode, t, clientId, redirectUri) ==
  IF ~authCode.exists THEN "INVALID_CODE"
  ELSE IF authCode.used THEN "CODE_ALREADY_USED"
  ELSE IF authCode.clientId # clientId \/ authCode.redirectUri # redirectUri
  THEN "CODE_VALIDATION_FAILED"
  ELSE IF authCode.expiresAt < t THEN "CODE_EXPIRED"
  ELSE "OK"

\* mutant: the redirect uri not compared
codeGrantCheckNoRedirect(authCode, t, clientId, redirectUri) ==
  IF ~authCode.exists THEN "INVALID_CODE"
  ELSE IF authCode.used THEN "CODE_ALREADY_USED"
  ELSE IF authCode.expiresAt < t THEN "CODE_EXPIRED"
  ELSE IF authCode.clientId # clientId THEN "CODE_VALIDATION_FAILED"
  ELSE "OK"

\* handleAuthorizationCodeGrant's checks on the row read, in the order of the code
codeGrantCheck(authCode, t, clientId, redirectUri) ==
  IF ~authCode.exists THEN "INVALID_CODE"
  ELSE IF authCode.used THEN "CODE_ALREADY_USED"
  ELSE IF authCode.expiresAt < t THEN "CODE_EXPIRED"
  ELSE IF authCode.clientId # clientId \/ authCode.redirectUri # redirectUri
  THEN "CODE_VALIDATION_FAILED"
  ELSE "OK"

\* the token row created from the code row read; token and refresh token are
\* fresh random values, here the next two numbers never drawn before
tokenRow(a, authCode, t) ==
  [exists |-> TRUE, userId |-> authCode.userId, clientId |-> authCode.clientId,
   token |-> a.minted + 1, refreshToken |-> a.minted + 2,
   scopes |-> authCode.scopes, expiresAt |-> t + TokenTtlMinutes]

\* prisma.$transaction([authorizationCode.update({ used: true }), accessToken.create])
codeGrantWrite(a, authCode, code, t) ==
  [a EXCEPT !.authorizationCode[code].used = TRUE,
            !.accessToken = Append(@, tokenRow(a, authCode, t)),
            !.minted = @ + 2,
            !.issued[code] = @ + 1,
            !.origin = Append(@, code)]

handleAuthorizationCodeGrant(a, t, clientId, code, redirectUri) ==
  IF codeGrantCheck(findCode(a, code), t, clientId, redirectUri) # "OK"
  THEN AuthThrown(a, codeGrantCheck(findCode(a, code), t, clientId, redirectUri))
  ELSE AuthReturned(codeGrantWrite(a, findCode(a, code), code, t))

\* exchangeCodeForToken with grantType authorization_code
exchangeCodeForToken(a, t, clientId, clientSecret, code, redirectUri) ==
  IF validateClient(a, clientId, clientSecret) # "OK"
  THEN AuthThrown(a, validateClient(a, clientId, clientSecret))
  ELSE handleAuthorizationCodeGrant(a, t, clientId, code, redirectUri)

\* ------------------------------------------------------------------ OAuthService: tokens
\* no row of sharing_permissions
NoPermission == [exists |-> FALSE, allowedFields |-> <<>>]

NoPermissions == [pair \in Users \X Clients |-> NoPermission]

NoToken ==
  [exists |-> FALSE, userId |-> "null", clientId |-> "null", token |-> 0,
   refreshToken |-> 0, scopes |-> {}, expiresAt |-> 0]

\* prisma.accessToken.findUnique({ where: { refreshToken } }): the row's place, 0 for null
findByRefreshToken(a, refreshToken) ==
  IF \E i \in 1..Len(a.accessToken) :
       a.accessToken[i].exists /\ a.accessToken[i].refreshToken = refreshToken
  THEN CHOOSE i \in 1..Len(a.accessToken) :
         a.accessToken[i].exists /\ a.accessToken[i].refreshToken = refreshToken
  ELSE 0

\* prisma.accessToken.findUnique({ where: { token } }): the row's place, 0 for null
findByToken(a, accessTokenValue) ==
  IF \E i \in 1..Len(a.accessToken) :
       a.accessToken[i].exists /\ a.accessToken[i].token = accessTokenValue
  THEN CHOOSE i \in 1..Len(a.accessToken) :
         a.accessToken[i].exists /\ a.accessToken[i].token = accessTokenValue
  ELSE 0

tokenAt(a, i) == IF i = 0 THEN NoToken ELSE a.accessToken[i]

\* !token || token.clientId !== clientId
refreshGrantCheck(token, clientId) ==
  IF ~token.exists \/ token.clientId # clientId THEN "INVALID_REFRESH_TOKEN" ELSE "OK"

\* the update without its refreshToken field: the old refresh value stays usable
refreshGrantWriteKeepRefresh(a, i, t) ==
  [a EXCEPT !.accessToken[i] = [@ EXCEPT !.token = a.minted + 1,
                                         !.expiresAt = t + TokenTtlMinutes],
            !.minted = @ + 2]

\* the update also resetting the scopes to every scope of the client
refreshGrantWriteAllScopes(a, i, t) ==
  [a EXCEPT !.accessToken[i] = [@ EXCEPT !.token = a.minted + 1,
                                         !.refreshToken = a.minted + 2,
                                         !.scopes = {"profile", "media"},
                                         !.expiresAt = t + TokenTtlMinutes],
            !.minted = @ + 2]

\* prisma.accessToken.update({ where: { id }, data: { token, refreshToken, expiresAt } })
refreshGrantWrite(a, i, t) ==
  [a EXCEPT !.accessToken[i] = [@ EXCEPT !.token = a.minted + 1,
                                         !.refreshToken = a.minted + 2,
                                         !.expiresAt = t + TokenTtlMinutes],
            !.minted = @ + 2]

handleRefreshTokenGrant(a, t, clientId, refreshToken) ==
  IF refreshGrantCheck(tokenAt(a, findByRefreshToken(a, refreshToken)), clientId) # "OK"
  THEN AuthThrown(a, refreshGrantCheck(tokenAt(a, findByRefreshToken(a, refreshToken)),
                                       clientId))
  ELSE AuthReturned(refreshGrantWrite(a, findByRefreshToken(a, refreshToken), t))

\* exchangeCodeForToken with grantType refresh_token
exchangeRefreshToken(a, t, clientId, clientSecret, refreshToken) ==
  IF validateClient(a, clientId, clientSecret) # "OK"
  THEN AuthThrown(a, validateClient(a, clientId, clientSecret))
  ELSE handleRefreshTokenGrant(a, t, clientId, refreshToken)

\* the checks without the comparison of expiresAt with the clock
validateAccessTokenCheckNoExpiry(a, t, token) ==
  IF ~token.exists THEN "INVALID_ACCESS_TOKEN"
  ELSE IF ~a.user[token.userId].isActive \/ ~a.apiClient[token.clientId].isActive
  THEN "INACTIVE_ACCOUNT"
  ELSE "OK"

\* validateAccessToken's checks on the row read, in the order of the code
validateAccessTokenCheck(a, t, token) ==
  IF ~token.exists THEN "INVALID_ACCESS_TOKEN"
  ELSE IF token.expiresAt < t THEN "TOKEN_EXPIRED"
  ELSE IF ~a.user[token.userId].isActive \/ ~a.apiClient[token.clientId].isActive
  THEN "INACTIVE_ACCOUNT"
  ELSE "OK"

\* what validateAccessToken throws or returns: { userId, clientId, scopes }
validateAccessToken(a, t, accessTokenValue) ==
  IF validateAccessTokenCheck(a, t, tokenAt(a, findByToken(a, accessTokenValue))) # "OK"
  THEN [error |-> validateAccessTokenCheck(a, t, tokenAt(a, findByToken(a, accessTokenValue))),
        userId |-> "null", clientId |-> "null", scopes |-> {}]
  ELSE [error |-> "OK",
        userId |-> tokenAt(a, findByToken(a, accessTokenValue)).userId,
        clientId |-> tokenAt(a, findByToken(a, accessTokenValue)).clientId,
        scopes |-> tokenAt(a, findByToken(a, accessTokenValue)).scopes]

\* the delete issued without the lookup: an absent row makes it throw P2025
revokeTokenNoLookup(a, accessTokenValue) ==
  IF findByToken(a, accessTokenValue) = 0 THEN AuthThrown(a, "P2025")
  ELSE AuthReturned([a EXCEPT !.accessToken[findByToken(a, accessTokenValue)] = NoToken])

\* revokeToken: the row is deleted when findUnique found one
revokeToken(a, accessTokenValue) ==
  IF findByToken(a, accessTokenValue) = 0 THEN AuthReturned(a)
  ELSE AuthReturned([a EXCEPT !.accessToken[findByToken(a, accessTokenValue)] = NoToken])

\* accessToken.deleteMany({ where: { clientId } })
deleteTokensOfClient(rows, clientId) ==
  [i \in 1..Len(rows) |-> IF rows[i].clientId = clientId THEN NoToken ELSE rows[i]]

\* the batch without its accessToken.deleteMany
suspendSubscriptionKeepTokens(a, clientId) ==
  IF a.subscription[clientId] # "active" THEN AuthThrown(a, "NO_ACTIVE_SUBSCRIPTION")
  ELSE AuthReturned([a EXCEPT !.subscription[clientId] = "suspended",
                              !.apiClient[clientId].isActive = FALSE])

\* SubscriptionService.suspendSubscription: one batch transaction
suspendSubscription(a, clientId) ==
  IF a.subscription[clientId] # "active" THEN AuthThrown(a, "NO_ACTIVE_SUBSCRIPTION")
  ELSE AuthReturned([a EXCEPT !.subscription[clientId] = "suspended",
                              !.apiClient[clientId].isActive = FALSE,
                              !.accessToken = deleteTokensOfClient(@, clientId)])

\* SubscriptionService.reactivateSubscription: one batch transaction
reactivateSubscription(a, clientId) ==
  IF a.subscription[clientId] # "suspended" THEN AuthThrown(a, "NO_SUSPENDED_SUBSCRIPTION")
  ELSE AuthReturned([a EXCEPT !.subscription[clientId] = "active",
                              !.apiClient[clientId].isActive = TRUE])

\* UserService.deactivateAccount
deactivateAccount(a, userId) == AuthReturned([a EXCEPT !.user[userId].isActive = FALSE])

\* ------------------------------------------------------------------ PrivacyService
\* the field names updatePermissions accepts
validFields ==
  {"displayName", "username", "profilePictureUrl", "bio", "location", "website",
   "email", "phone", "media"}

PrivacyReturned(a, perms) == [auth |-> a, sharingPermission |-> perms, error |-> "OK"]

PrivacyThrown(a, perms, code) == [auth |-> a, sharingPermission |-> perms, error |-> code]

\* accessToken.deleteMany({ where: { userId, clientId } })
deleteTokensOfPair(rows, userId, clientId) ==
  [i \in 1..Len(rows) |->
     IF rows[i].userId = userId /\ rows[i].clientId = clientId THEN NoToken ELSE rows[i]]

\* authorizationCode.deleteMany({ where: { userId, clientId, used: false } })
deleteUnusedCodesOfPair(rows, userId, clientId) ==
  [k \in 1..Len(rows) |->
     IF rows[k].userId = userId /\ rows[k].clientId = clientId /\ ~rows[k].used
     THEN NoCode ELSE rows[k]]

\* sharingPermission.upsert: the row of the pair holds data.allowedFields
upsertPermission(perms, userId, clientId, allowedFields) ==
  [perms EXCEPT ![<<userId, clientId>>] = [exists |-> TRUE, allowedFields |-> allowedFields]]

\* updatePermissions after the upsert: existingPermission is read from the
\* table the upsert has written, and the tokens of the pair are deleted when
\* data.allowedFields is shorter than its allowedFields
updatePermissionsRevoke(a, perms, userId, clientId, allowedFields) ==
  LET existingPermission ==
        upsertPermission(perms, userId, clientId, allowedFields)[<<userId, clientId>>]
  IN IF existingPermission.exists
        /\ Len(allowedFields) < Len(existingPermission.allowedFields)
     THEN [a EXCEPT !.accessToken = deleteTokensOfPair(@, userId, clientId)]
     ELSE a

updatePermissions(a, perms, userId, clientId, allowedFields) ==
  IF clientId \notin DOMAIN a.apiClient
  THEN PrivacyThrown(a, perms, "CLIENT_NOT_FOUND")
  ELSE IF \E i \in 1..Len(allowedFields) : allowedFields[i] \notin validFields
  THEN PrivacyThrown(a, perms, "INVALID_FIELDS")
  ELSE PrivacyReturned(updatePermissionsRevoke(a, perms, userId, clientId, allowedFields),
                       upsertPermission(perms, userId, clientId, allowedFields))

\* the batch with the codes of the pair left in place
revokePermissionsWriteKeepCodes(a, perms, userId, clientId) ==
  PrivacyReturned([a EXCEPT !.accessToken = deleteTokensOfPair(@, userId, clientId)],
                  [perms EXCEPT ![<<userId, clientId>>] = NoPermission])

\* revokePermissions: one batch transaction of three deletes
revokePermissionsWrite(a, perms, userId, clientId) ==
  PrivacyReturned([a EXCEPT !.accessToken = deleteTokensOfPair(@, userId, clientId),
                            !.authorizationCode =
                               deleteUnusedCodesOfPair(@, userId, clientId)],
                  [perms EXCEPT ![<<userId, clientId>>] = NoPermission])

revokePermissions(a, perms, userId, clientId) ==
  IF <<userId, clientId>> \notin DOMAIN perms \/ ~perms[<<userId, clientId>>].exists
  THEN PrivacyThrown(a, perms, "PERMISSIONS_NOT_FOUND")
  ELSE revokePermissionsWrite(a, perms, userId, clientId)

\* ------------------------------------------------------------------ SpecOAuth: one request at a time
Reply(op, code, r) ==
  [op |-> op, error |-> r.error, code |-> code,
   tokens |-> Len(r.auth.accessToken) - Len(accessToken)]

FinishAuth(op, code, r) ==
  /\ StoreAuth(r.auth)
  /\ reply' = Reply(op, code, r)
  /\ UNCHANGED <<dbVars, concVars, sideVars, last, now, ticks>>

InitiateAuthorization(clientId, redirectUri, scope, userId) ==
  /\ Len(authorizationCode) < MaxCodes
  /\ FinishAuth("initiateAuthorization", 0,
                initiateAuthorization(Auth, now, clientId, redirectUri, scope, userId))

ExchangeCode(clientId, clientSecret, code, redirectUri) ==
  /\ code \in 1..MaxCodes
  /\ FinishAuth("exchangeCode", code,
                exchangeCodeForToken(Auth, now, clientId, clientSecret, code, redirectUri))

\* refreshes made so far: each draws two token values, as each exchange does
Refreshes == (minted - 2 * Len(accessToken)) \div 2

RefreshToken(clientId, clientSecret, refreshToken) ==
  /\ Refreshes < MaxRefreshes
  /\ FinishAuth("refreshToken", 0,
                exchangeRefreshToken(Auth, now, clientId, clientSecret, refreshToken))

ValidateAccessToken(accessTokenValue) ==
  /\ accessTokenValue \in TokenValues
  /\ FinishAuth("validateAccessToken", 0,
                [auth |-> Auth, error |-> validateAccessToken(Auth, now, accessTokenValue).error])

RevokeToken(accessTokenValue) ==
  /\ accessTokenValue \in TokenValues
  /\ FinishAuth("revokeToken", 0, revokeToken(Auth, accessTokenValue))

SuspendSubscription(clientId) ==
  /\ clientId \in Clients
  /\ FinishAuth("suspendSubscription", 0, suspendSubscription(Auth, clientId))

ReactivateSubscription(clientId) ==
  /\ clientId \in Clients
  /\ FinishAuth("reactivateSubscription", 0, reactivateSubscription(Auth, clientId))

DeactivateAccount(userId) ==
  /\ userId \in Users
  /\ FinishAuth("deactivateAccount", 0, deactivateAccount(Auth, userId))

Tick(minutes) ==
  /\ ticks < MaxTicks
  /\ ticks' = ticks + 1
  /\ now' = now + minutes
  /\ UNCHANGED <<dbVars, concVars, sideVars, last, apiClient, subscription, user,
                 authorizationCode, accessToken, minted, issued, origin, reply>>

\* ------------------------------------------------------------------ Spec: one request at a time
\* what the last request returned or threw
Result(op, r) ==
  [op |-> op, error |-> r.error, required |-> r.required, available |-> r.available]

RECURSIVE LedgerRows(_, _)
LedgerRows(l, S) ==
  IF S = {} THEN 0
  ELSE LET u == CHOOSE x \in S : TRUE IN Len(l[u]) + LedgerRows(l, S \ {u})

\* the model stops taking wallet requests once MaxLedger ledger rows exist
LedgerRoom == LedgerRows(ledger, Users) < MaxLedger

\* transfer_${Date.now()}_${random}, gift_${Date.now()}_${random}: an id no row holds yet
freshId == "tx_" \o ToString(LedgerRows(ledger, Users) + 1)

Finish(op, r) ==
  /\ Store(r.db)
  /\ last' = Result(op, r)
  /\ UNCHANGED <<concVars, oauthVars, sideVars>>

AddCoins(userId, coins) ==
  /\ LedgerRoom
  /\ Finish("addCoins", addCoins(DB, userId, coins, "BONUS", "manual_bonus", "bonus"))

DeductCoins(userId, coins) ==
  /\ LedgerRoom
  /\ Finish("deductCoins", deductCoins(DB, userId, coins, "WITHDRAWAL", "null", "null"))

GetWalletBalance(userId) ==
  /\ userId \in Users
  /\ Finish("getWalletBalance", getWalletBalance(DB, userId))

LockWallet(userId) ==
  /\ userId \in Users
  /\ Finish("lockWallet", lockWallet(DB, userId))

UnlockWallet(userId) ==
  /\ userId \in Users
  /\ Finish("unlockWallet", unlockWallet(DB, userId))

TransferCoins(fromUserId, toUserId, coins) ==
  /\ LedgerRoom
  /\ Finish("transferCoins", transferCoins(DB, fromUserId, toUserId, coins, freshId))

SendGift(fromUserId, toUserId, giftTypeId, platformId, quantity) ==
  /\ LedgerRoom
  /\ Finish("sendGift",
            sendGift(DB, fromUserId, toUserId, giftTypeId, platformId, quantity, freshId))

CreatePaymentIntent(userId, amount, paymentId, stripeStatus) ==
  /\ ~findPayment(DB, paymentId).exists
  /\ Finish("createPaymentIntent",
            createPaymentIntent(DB, userId, amount, paymentId, stripeStatus))

HandlePaymentSuccess(paymentId) ==
  /\ LedgerRoom
  /\ findPayment(DB, paymentId).exists
  /\ Finish("handlePaymentSuccess", handlePaymentSuccess(DB, paymentId))

RefundPayment(paymentId) ==
  /\ LedgerRoom
  /\ Finish("refundPayment", refundPayment(DB, paymentId))

\* two gifts priced as Heart and Fire of scripts/seedGifts.ts: heart is sold on
\* every platform from a stock of 2, fire on p1 only and without a cap
InitialCatalog ==
  [heart |-> [isActive |-> TRUE, platformId |-> "null", priceCoins |-> 10,
              isLimited |-> TRUE, maxQuantity |-> 2, soldQuantity |-> 0],
   fire |-> [isActive |-> TRUE, platformId |-> "p1", priceCoins |-> 100,
             isLimited |-> FALSE, maxQuantity |-> 0, soldQuantity |-> 0]]

\* p1 has no marketplace row (the default share applies); p2 keeps everything
InitialMarketplace == [p2 |-> 100]

NoRequest == [op |-> "none", error |-> "OK", required |-> 0, available |-> 0]

Init ==
  /\ wallet = [u \in Users |-> NoWallet]
  /\ ledger = [u \in Users |-> <<>>]
  /\ giftType = InitialCatalog
  /\ giftTransaction = <<>>
  /\ marketplace = InitialMarketplace
  /\ stripePayment = [p \in PaymentIds |-> NoPayment]
  /\ apiClient = InitialClients
  /\ subscription = [c \in Clients |-> "active"]
  /\ user = [u \in Users |-> [isActive |-> TRUE]]
  /\ authorizationCode = <<>>
  /\ accessToken = <<>>
  /\ now = 0
  /\ ticks = 0
  /\ minted = 0
  /\ issued = [k \in 1..MaxCodes |-> 0]
  /\ origin = <<>>
  /\ reply = NoReply
  /\ last = NoRequest
  /\ pc = [c \in Conns |-> "idle"]
  /\ ctx = [c \in Conns |-> NoRequest]
  /\ ret = [c \in Conns |-> NoRequest]
  /\ started = 0
  /\ redis = <<>>
  /\ admitted = <<>>
  /\ revoked = {}
  /\ sharingPermission = NoPermissions

\* wallet and gift requests
Next ==
  \/ \E u \in Users, n \in Amounts : AddCoins(u, n)
  \/ \E u \in Users, n \in Amounts : DeductCoins(u, n)
  \/ \E u \in Users : GetWalletBalance(u)
  \/ \E u \in Users : LockWallet(u)
  \/ \E u \in Users : UnlockWallet(u)
  \/ \E f \in Users, t \in Users, n \in Amounts : TransferCoins(f, t, n)
  \/ \E f \in Users, t \in Users, g \in Gifts \cup {"unknown"}, p \in Platforms,
        q \in Quantities : SendGift(f, t, g, p, q)

Spec == Init /\ [][Next]_vars

\* payment requests, with the wallet requests that can change their outcome
NextPay ==
  \/ \E u \in Users, a \in 0..MaxUSD, p \in PaymentIds,
        st \in {"requires_payment_method", "succeeded"} : CreatePaymentIntent(u, a, p, st)
  \/ \E p \in PaymentIds : HandlePaymentSuccess(p)
  \/ \E p \in PaymentIds \cup {"pi_unknown"} : RefundPayment(p)
  \/ \E u \in Users, n \in Amounts : DeductCoins(u, n)
  \/ \E u \in Users : LockWallet(u)
  \/ \E u \in Users : UnlockWallet(u)

SpecPay == Init /\ [][NextPay]_vars

\* wallet, gift and payment requests together, one at a time
NextLedger ==
  \/ \E u \in Users, n \in {0, 25} : AddCoins(u, n)
  \/ \E u \in Users, n \in {1, 25} : DeductCoins(u, n)
  \/ \E u \in Users : LockWallet(u)
  \/ \E f \in Users, t \in Users, n \in {1} : TransferCoins(f, t, n)
  \/ \E f \in Users, t \in Users, g \in {"heart"}, p \in {"p1"}, q \in {1} :
        SendGift(f, t, g, p, q)
  \/ \E u \in Users, a \in {MaxUSD}, p \in PaymentIds, st \in {"requires_payment_method"} :
        CreatePaymentIntent(u, a, p, st)
  \/ \E p \in PaymentIds : HandlePaymentSuccess(p)
  \/ \E p \in PaymentIds : RefundPayment(p)

SpecLedger == Init /\ [][NextLedger]_vars

\* ------------------------------------------------------------------ SpecGift: gifts and their fees
\* the gift a platform creates, and the shares a platform configures
NewGifts == {"rose"}
SharePcts == {0, 10, 101}

CreateGiftType(giftId, platformId, isLimited, maxQuantity) ==
  /\ giftId \notin DOMAIN giftType
  /\ Finish("createGiftType",
            createGiftType(DB, giftId, platformId, 10, isLimited, maxQuantity))

EnableMarketplace(platformId, revenueShare) ==
  /\ revenueShare \in SharePcts
  /\ Finish("enableMarketplace", enableMarketplace(DB, apiClient, platformId, revenueShare))

\* u1 holds 203 coins from one bonus credit; nobody else has a wallet
FundedDB ==
  addCoins([wallet |-> [u \in Users |-> NoWallet], ledger |-> [u \in Users |-> <<>>],
            giftType |-> InitialCatalog, giftTransaction |-> <<>>,
            marketplace |-> InitialMarketplace,
            stripePayment |-> [p \in PaymentIds |-> NoPayment]],
           "u1", 203, "BONUS", "manual_bonus", "bonus").db

InitGift ==
  /\ wallet = FundedDB.wallet
  /\ ledger = FundedDB.ledger
  /\ giftType = FundedDB.giftType
  /\ giftTransaction = FundedDB.giftTransaction
  /\ marketplace = FundedDB.marketplace
  /\ stripePayment = FundedDB.stripePayment
  /\ apiClient = InitialClients
  /\ subscription = [c \in Clients |-> "active"]
  /\ user = [u \in Users |-> [isActive |-> TRUE]]
  /\ authorizationCode = <<>>
  /\ accessToken = <<>>
  /\ now = 0
  /\ ticks = 0
  /\ minted = 0
  /\ issued = [k \in 1..MaxCodes |-> 0]
  /\ origin = <<>>
  /\ reply = NoReply
  /\ last = NoRequest
  /\ pc = [c \in Conns |-> "idle"]
  /\ ctx = [c \in Conns |-> NoRequest]
  /\ ret = [c \in Conns |-> NoRequest]
  /\ started = 0
  /\ redis = <<>>
  /\ admitted = <<>>
  /\ revoked = {}
  /\ sharingPermission = NoPermissions

NextGift ==
  \/ \E g \in NewGifts, p \in Platforms, lim \in BOOLEAN, cap \in 0..1 :
        CreateGiftType(g, p, lim, cap)
  \/ \E p \in Platforms \cup {"p9"}, r \in SharePcts : EnableMarketplace(p, r)
  \/ \E f \in Users, t \in Users, g \in Gifts \cup NewGifts, p \in Platforms,
        q \in Quantities : SendGift(f, t, g, p, q)

SpecGift == InitGift /\ [][NextGift]_vars

\* authorization requests and the clock
NextOAuth ==
  \/ \E c \in Clients \cup {"unknown"}, uri \in RedirectUris, sc \in ScopeSets,
        u \in Owners \cup {"null"} : InitiateAuthorization(c, uri, sc, u)
  \/ \E c \in Clients, secret \in {"secret_p1", "secret_p2"}, k \in 1..MaxCodes,
        uri \in RedirectUris : ExchangeCode(c, secret, k, uri)
  \/ \E m \in TickMinutes : Tick(m)

SpecOAuth == Init /\ [][NextOAuth]_vars

\* user u1 has authorized client p1 for some scopes; the code is not exchanged yet
InitToken ==
  /\ wallet = [u \in Users |-> NoWallet]
  /\ ledger = [u \in Users |-> <<>>]
  /\ giftType = InitialCatalog
  /\ giftTransaction = <<>>
  /\ marketplace = InitialMarketplace
  /\ stripePayment = [p \in PaymentIds |-> NoPayment]
  /\ apiClient = InitialClients
  /\ subscription = [c \in Clients |-> "active"]
  /\ user = [u \in Users |-> [isActive |-> TRUE]]
  /\ \E sc \in ScopeSets :
       authorizationCode =
         <<[exists |-> TRUE, userId |-> "u1", clientId |-> "p1",
            redirectUri |-> "https://p/cb", scopes |-> sc,
            expiresAt |-> codeExpiresAt(0), used |-> FALSE]>>
  /\ accessToken = <<>>
  /\ now = 0
  /\ ticks = 0
  /\ minted = 0
  /\ issued = [k \in 1..MaxCodes |-> 0]
  /\ origin = <<>>
  /\ reply = NoReply
  /\ last = NoRequest
  /\ pc = [c \in Conns |-> "idle"]
  /\ ctx = [c \in Conns |-> NoRequest]
  /\ ret = [c \in Conns |-> NoRequest]
  /\ started = 0
  /\ redis = <<>>
  /\ admitted = <<>>
  /\ revoked = {}
  /\ sharingPermission = NoPermissions

\* the life of a token: exchange, refresh, validation, revocation, suspension
NextToken ==
  \/ \E c \in Clients, secret \in {"secret_p1", "secret_p2"}, k \in 1..MaxCodes,
        uri \in RedirectUris : ExchangeCode(c, secret, k, uri)
  \/ \E c \in Clients, secret \in {"secret_p1", "secret_p2"}, v \in TokenValues :
        RefreshToken(c, secret, v)
  \/ \E v \in TokenValues : ValidateAccessToken(v)
  \/ \E v \in TokenValues : RevokeToken(v)
  \/ \E c \in Clients : SuspendSubscription(c)
  \/ \E c \in Clients : ReactivateSubscription(c)
  \/ \E u \in Users : DeactivateAccount(u)
  \/ \E m \in LongTickMinutes : Tick(m)

SpecToken == InitToken /\ [][NextToken]_vars

\* ------------------------------------------------------------------ SpecAuthorize: authorization requests
\* codes are requested while clients are suspended and reactivated and the clock advances
NextAuthorize ==
  \/ \E c \in Clients \cup {"unknown"}, uri \in RedirectUris, sc \in ScopeSets,
        u \in Owners \cup {"null"} : InitiateAuthorization(c, uri, sc, u)
  \/ \E c \in Clients : SuspendSubscription(c)
  \/ \E c \in Clients : ReactivateSubscription(c)
  \/ \E m \in TickMinutes : Tick(m)

SpecAuthorize == Init /\ [][NextAuthorize]_vars

\* ------------------------------------------------------------------ SpecConc: interleaved requests
\* A connection runs one request at a time, statement by statement. The writes
\* of one transaction (update, create) become visible together, at its commit:
\* the write step. Between a transaction's findUnique and its write step the
\* other connection may commit.
debitType(op) ==
  CASE op = "deductCoins" -> "WITHDRAWAL"
    [] op = "refundPayment" -> "REFUND"
    [] OTHER -> "GIFT_SENT"

creditType(op) ==
  CASE op = "addCoins" -> "BONUS"
    [] op = "handlePaymentSuccess" -> "DEPOSIT"
    [] OTHER -> "GIFT_RECEIVED"

referenceTypeOf(op) ==
  CASE op = "addCoins" -> "manual_bonus"
    [] op = "deductCoins" -> "null"
    [] op = "transferCoins" -> "peer_transfer"
    [] op = "sendGift" -> "gift_transaction"
    [] op = "handlePaymentSuccess" -> "stripe_payment"
    [] OTHER -> "stripe_refund"

\* a connection's request: its arguments and the locals it has set so far
Request(op, userId, toUserId, coins, credit, referenceId) ==
  [op |-> op, userId |-> userId, toUserId |-> toUserId, coins |-> coins,
   credit |-> credit, referenceId |-> referenceId, giftTypeId |-> "null",
   platformId |-> "null", quantity |-> 0, paymentId |-> "null",
   snap |-> NoWallet, gift |-> NoGift, debited |-> FALSE, credited |-> FALSE]

Idle == Request("none", "null", "null", 0, 0, "null")

\* how a connection's last request ended
Ended(req, error) ==
  [op |-> req.op, error |-> error, debited |-> req.debited, credited |-> req.credited]

\* the id a request draws for its transfer or gift: no other request has it
requestId == "tx_c" \o ToString(started + 1)

\* connection c has not sent its request yet
Fresh(c) == pc[c] = "idle" /\ ret[c].op = "none"

Begin(c, req, first) ==
  /\ Fresh(c)
  /\ started' = started + 1
  /\ pc' = [pc EXCEPT ![c] = first]
  /\ ctx' = [ctx EXCEPT ![c] = req]
  /\ UNCHANGED <<dbVars, oauthVars, sideVars, last, ret>>

\* the request of connection c returns or throws
End(c, req, error) ==
  /\ pc' = [pc EXCEPT ![c] = "idle"]
  /\ ctx' = [ctx EXCEPT ![c] = Idle]
  /\ ret' = [ret EXCEPT ![c] = Ended(req, error)]
  /\ UNCHANGED <<oauthVars, sideVars, last, started>>

Goto(c, req, next) ==
  /\ pc' = [pc EXCEPT ![c] = next]
  /\ ctx' = [ctx EXCEPT ![c] = req]
  /\ UNCHANGED <<oauthVars, sideVars, last, ret, started>>

BeginAddCoins(c, userId, coins) ==
  /\ userId \in Users
  /\ Begin(c, Request("addCoins", "null", userId, 0, coins, "bonus"), "addRead")

BeginDeductCoins(c, userId, coins) ==
  /\ userId \in Users
  /\ Begin(c, Request("deductCoins", userId, "null", coins, 0, "null"), "deductRead")

\* transferCoins up to its call of deductCoins
BeginTransferCoins(c, fromUserId, toUserId, coins) ==
  /\ fromUserId # toUserId
  /\ coins > 0
  /\ Begin(c, Request("transferCoins", fromUserId, toUserId, coins, coins, requestId),
           "deductRead")

\* sendGift up to its call of deductCoins: the checks on the gift row read now
BeginSendGift(c, fromUserId, toUserId, giftTypeId, platformId, quantity) ==
  /\ sendGiftCheck(findGiftType(DB, giftTypeId), fromUserId, toUserId, platformId,
                   quantity) = "OK"
  /\ Begin(c, [Request("sendGift", fromUserId, toUserId,
                       totalCost(findGiftType(DB, giftTypeId), quantity),
                       receiverAmount(DB, findGiftType(DB, giftTypeId), platformId, quantity),
                       requestId)
                 EXCEPT !.giftTypeId = giftTypeId, !.platformId = platformId,
                        !.quantity = quantity, !.gift = findGiftType(DB, giftTypeId)],
           "deductRead")

\* tx.stripePayment.update locks the payment row until the transaction ends:
\* a second update of the row waits for it
PaymentRowFree(paymentId) ==
  \A c \in Conns : ~(ctx[c].op = "handlePaymentSuccess" /\ ctx[c].paymentId = paymentId)

BeginHandlePaymentSuccess(c, paymentId) ==
  /\ findPayment(DB, paymentId).exists
  /\ PaymentRowFree(paymentId)
  /\ Begin(c, [Request("handlePaymentSuccess", "null", findPayment(DB, paymentId).userId,
                       0, findPayment(DB, paymentId).coins, paymentId)
                 EXCEPT !.paymentId = paymentId],
           "addRead")

\* refundPayment up to stripe.refunds.create: the status read now is checked
BeginRefundPayment(c, paymentId) ==
  /\ findPayment(DB, paymentId).exists
  /\ findPayment(DB, paymentId).status = "SUCCEEDED"
  /\ Begin(c, [Request("refundPayment", findPayment(DB, paymentId).userId, "null",
                       findPayment(DB, paymentId).coins, 0, refundId(paymentId))
                 EXCEPT !.paymentId = paymentId],
           "refundMark")

\* prisma.stripePayment.update({ data: { status: 'REFUNDED' } })
RefundMark(c) ==
  /\ pc[c] = "refundMark"
  /\ PaymentRowFree(ctx[c].paymentId)
  /\ Store([DB EXCEPT !.stripePayment[ctx[c].paymentId].status = "REFUNDED"])
  /\ Goto(c, ctx[c], "deductRead")

\* deductCoins up to its checks: the row read by tx.wallet.findUnique
DeductRead(c) ==
  /\ pc[c] = "deductRead"
  /\ UNCHANGED dbVars
  /\ LET req == ctx[c]
         snap == wallet[req.userId]
     IN IF req.coins <= 0 THEN End(c, req, "INVALID_AMOUNT")
        ELSE IF deductCoinsCheck(snap, req.coins) # "OK"
        THEN End(c, req, deductCoinsCheck(snap, req.coins))
        ELSE Goto(c, [req EXCEPT !.snap = snap], "deductWrite")

\* deductCoins from tx.wallet.update to the commit
DeductWrite(c) ==
  /\ pc[c] = "deductWrite"
  /\ LET req == ctx[c]
         r == deductCoinsWrite(DB, req.snap, req.userId, req.coins, debitType(req.op),
                               referenceTypeOf(req.op), req.referenceId)
         done == [req EXCEPT !.debited = TRUE]
     IN /\ Store(r.db)
        /\ IF req.op \in {"transferCoins", "sendGift"}
           THEN Goto(c, done, "addRead")
           ELSE End(c, done, "OK")

\* addCoins up to tx.wallet.findUnique
AddRead(c) ==
  /\ pc[c] = "addRead"
  /\ UNCHANGED dbVars
  /\ LET req == ctx[c]
     IN IF req.credit <= 0 THEN End(c, req, "INVALID_AMOUNT")
        ELSE Goto(c, [req EXCEPT !.snap = wallet[req.toUserId]], "addWrite")

\* addCoins from tx.wallet.create to the commit
AddWrite(c) ==
  /\ pc[c] = "addWrite"
  /\ LET req == ctx[c]
         r == addCoinsWrite(DB, req.snap, req.toUserId, req.credit, creditType(req.op),
                            referenceTypeOf(req.op), req.referenceId)
         done == [req EXCEPT !.credited = TRUE]
     IN /\ Store(r.db)
        /\ IF r.error # "OK" THEN End(c, req, r.error)
           ELSE IF req.op = "sendGift" THEN Goto(c, done, "giftCommit")
           ELSE IF req.op = "handlePaymentSuccess" THEN Goto(c, done, "paymentCommit")
           ELSE End(c, done, "OK")

\* sendGift: tx.giftTransaction.create, tx.giftType.update and the commit
GiftCommit(c) ==
  /\ pc[c] = "giftCommit"
  /\ LET req == ctx[c]
     IN /\ Store(sendGiftCommit(DB, req.gift, req.userId, req.toUserId, req.giftTypeId,
                                req.platformId, req.quantity, req.referenceId))
        /\ End(c, req, "OK")

\* handlePaymentSuccess: the commit of tx.stripePayment.update
PaymentCommit(c) ==
  /\ pc[c] = "paymentCommit"
  /\ Store([DB EXCEPT !.stripePayment[ctx[c].paymentId].status = "SUCCEEDED"])
  /\ End(c, ctx[c], "OK")

\* a request that is one statement
ConcLockWallet(c, userId, flag) ==
  /\ Fresh(c)
  /\ started' = started + 1
  /\ Store(setLocked(DB, userId, flag).db)
  /\ ret' = [ret EXCEPT ![c] =
               Ended(Request(IF flag THEN "lockWallet" ELSE "unlockWallet",
                             userId, "null", 0, 0, "null"),
                     setLocked(DB, userId, flag).error)]
  /\ UNCHANGED <<oauthVars, sideVars, pc, ctx, last>>

\* u1 has been credited the 100 coins of payment pi_1; u2 has no wallet yet
InitConc ==
  /\ wallet = [u \in Users |->
                 IF u = "u1" THEN [NewWallet EXCEPT !.balanceCoins = 100, !.totalEarned = 100]
                 ELSE NoWallet]
  /\ ledger = [u \in Users |->
                 IF u = "u1"
                 THEN <<[type |-> "DEPOSIT", amount |-> 100, balanceAfter |-> 100,
                         referenceType |-> "stripe_payment", referenceId |-> "pi_1"]>>
                 ELSE <<>>]
  /\ giftType = InitialCatalog
  /\ giftTransaction = <<>>
  /\ marketplace = InitialMarketplace
  /\ stripePayment = [p \in PaymentIds |->
                        [exists |-> TRUE, userId |-> "u1", coins |-> 100,
                         status |-> "SUCCEEDED"]]
  /\ apiClient = InitialClients
  /\ subscription = [c \in Clients |-> "active"]
  /\ user = [u \in Users |-> [isActive |-> TRUE]]
  /\ authorizationCode = <<>>
  /\ accessToken = <<>>
  /\ now = 0
  /\ ticks = 0
  /\ minted = 0
  /\ issued = [k \in 1..MaxCodes |-> 0]
  /\ origin = <<>>
  /\ reply = NoReply
  /\ last = NoRequest
  /\ pc = [c \in Conns |-> "idle"]
  /\ ctx = [c \in Conns |-> Idle]
  /\ ret = [c \in Conns |-> Ended(Idle, "OK")]
  /\ started = 0
  /\ redis = <<>>
  /\ admitted = <<>>
  /\ revoked = {}
  /\ sharingPermission = NoPermissions

NextConc ==
  \/ \E c \in Conns, u \in Users, n \in Amounts : BeginAddCoins(c, u, n)
  \/ \E c \in Conns, u \in Users, n \in Amounts : BeginDeductCoins(c, u, n)
  \/ \E c \in Conns, f \in Users, t \in Users, n \in Amounts : BeginTransferCoins(c, f, t, n)
  \/ \E c \in Conns, f \in Users, t \in Users, g \in Gifts, p \in Platforms,
        q \in Quantities : BeginSendGift(c, f, t, g, p, q)
  \/ \E c \in Conns, p \in PaymentIds : BeginHandlePaymentSuccess(c, p)
  \/ \E c \in Conns, p \in PaymentIds : BeginRefundPayment(c, p)
  \/ \E c \in Conns, u \in Users, flag \in BOOLEAN : ConcLockWallet(c, u, flag)
  \/ \E c \in Conns : RefundMark(c)
  \/ \E c \in Conns : DeductRead(c)
  \/ \E c \in Conns : DeductWrite(c)
  \/ \E c \in Conns : AddRead(c)
  \/ \E c \in Conns : AddWrite(c)
  \/ \E c \in Conns : GiftCommit(c)
  \/ \E c \in Conns : PaymentCommit(c)

SpecConc == InitConc /\ [][NextConc]_vars

\* ------------------------------------------------------------------ SpecPayConc: a payment being completed
\* handlePaymentSuccess: the interactive transaction started at
\* prisma.$transaction(async (tx) => ...) is rolled back instead of committed
\* (the process stops, the connection is lost, or the transaction's time limit
\* has passed, P2028) after addCoins has returned
PaymentAbort(c) ==
  /\ pc[c] = "paymentCommit"
  /\ UNCHANGED dbVars
  /\ End(c, ctx[c], "P2028")

\* createPaymentIntent has stored pi_1 for u1, not yet paid; nobody has a wallet
InitPayConc ==
  /\ wallet = [u \in Users |-> NoWallet]
  /\ ledger = [u \in Users |-> <<>>]
  /\ giftType = InitialCatalog
  /\ giftTransaction = <<>>
  /\ marketplace = InitialMarketplace
  /\ stripePayment = [p \in PaymentIds |->
                        [exists |-> TRUE, userId |-> "u1", coins |-> MaxUSD * CoinsPerUSD,
                         status |-> mapStripeStatusToPaymentStatus("requires_payment_method")]]
  /\ apiClient = InitialClients
  /\ subscription = [c \in Clients |-> "active"]
  /\ user = [u \in Users |-> [isActive |-> TRUE]]
  /\ authorizationCode = <<>>
  /\ accessToken = <<>>
  /\ now = 0
  /\ ticks = 0
  /\ minted = 0
  /\ issued = [k \in 1..MaxCodes |-> 0]
  /\ origin = <<>>
  /\ reply = NoReply
  /\ last = NoRequest
  /\ pc = [c \in Conns |-> "idle"]
  /\ ctx = [c \in Conns |-> Idle]
  /\ ret = [c \in Conns |-> Ended(Idle, "OK")]
  /\ started = 0
  /\ redis = <<>>
  /\ admitted = <<>>
  /\ revoked = {}
  /\ sharingPermission = NoPermissions

NextPayConc ==
  \/ \E c \in Conns, p \in PaymentIds : BeginHandlePaymentSuccess(c, p)
  \/ \E c \in Conns, u \in Users, n \in Amounts : BeginAddCoins(c, u, n)
  \/ \E c \in Conns, u \in Users, flag \in BOOLEAN : ConcLockWallet(c, u, flag)
  \/ \E c \in Conns : AddRead(c)
  \/ \E c \in Conns : AddWrite(c)
  \/ \E c \in Conns : PaymentCommit(c)
  \/ \E c \in Conns : PaymentAbort(c)

SpecPayConc == InitPayConc /\ [][NextPayConc]_vars

\* ------------------------------------------------------------------ SpecOAuthConc: interleaved exchanges
\* a connection's token request: its arguments and the code row it has read
AuthRequest(clientId, clientSecret, code, redirectUri) ==
  [op |-> "exchangeCode", clientId |-> clientId, clientSecret |-> clientSecret,
   code |-> code, redirectUri |-> redirectUri, authCode |-> NoCode]

AuthEnded(req, error) == [op |-> req.op, error |-> error, code |-> req.code]

EndAuth(c, req, error) ==
  /\ pc' = [pc EXCEPT ![c] = "idle"]
  /\ ctx' = [ctx EXCEPT ![c] = Idle]
  /\ ret' = [ret EXCEPT ![c] = AuthEnded(req, error)]
  /\ UNCHANGED <<dbVars, sideVars, last, started, now, ticks, reply>>

\* exchangeCodeForToken up to its call of handleAuthorizationCodeGrant
BeginExchangeCode(c, clientId, clientSecret, code, redirectUri) ==
  /\ code \in 1..MaxCodes
  /\ Begin(c, AuthRequest(clientId, clientSecret, code, redirectUri), "validateClient")

ValidateClient(c) ==
  /\ pc[c] = "validateClient"
  /\ IF validateClient(Auth, ctx[c].clientId, ctx[c].clientSecret) # "OK"
     THEN /\ EndAuth(c, ctx[c], validateClient(Auth, ctx[c].clientId, ctx[c].clientSecret))
          /\ StoreAuth(Auth)
     ELSE /\ pc' = [pc EXCEPT ![c] = "codeRead"]
          /\ UNCHANGED <<dbVars, oauthVars, sideVars, last, ctx, ret, started>>

\* handleAuthorizationCodeGrant: findUnique and the checks on the row it returned
CodeRead(c) ==
  /\ pc[c] = "codeRead"
  /\ IF codeGrantCheck(findCode(Auth, ctx[c].code), now, ctx[c].clientId,
                       ctx[c].redirectUri) # "OK"
     THEN /\ EndAuth(c, ctx[c], codeGrantCheck(findCode(Auth, ctx[c].code), now,
                                               ctx[c].clientId, ctx[c].redirectUri))
          /\ StoreAuth(Auth)
     ELSE /\ pc' = [pc EXCEPT ![c] = "codeWrite"]
          /\ ctx' = [ctx EXCEPT ![c].authCode = findCode(Auth, ctx[c].code)]
          /\ UNCHANGED <<dbVars, oauthVars, sideVars, last, ret, started>>

\* handleAuthorizationCodeGrant: the batch transaction, from the row read earlier
CodeWrite(c) ==
  /\ pc[c] = "codeWrite"
  /\ StoreAuth(codeGrantWrite(Auth, ctx[c].authCode, ctx[c].code, now))
  /\ EndAuth(c, ctx[c], "OK")

\* the clock advances while requests are in flight
ConcTick(minutes) ==
  /\ minutes \in TickMinutes
  /\ Tick(minutes)

\* user u1 has authorized client p1 and the code has not been exchanged yet
InitConcOAuth ==
  /\ wallet = [u \in Users |-> NoWallet]
  /\ ledger = [u \in Users |-> <<>>]
  /\ giftType = InitialCatalog
  /\ giftTransaction = <<>>
  /\ marketplace = InitialMarketplace
  /\ stripePayment = [p \in PaymentIds |-> NoPayment]
  /\ apiClient = InitialClients
  /\ subscription = [c \in Clients |-> "active"]
  /\ user = [u \in Users |-> [isActive |-> TRUE]]
  /\ authorizationCode =
       <<[exists |-> TRUE, userId |-> "u1", clientId |-> "p1",
          redirectUri |-> "https://p/cb", scopes |-> {"profile"},
          expiresAt |-> codeExpiresAt(0), used |-> FALSE]>>
  /\ accessToken = <<>>
  /\ now = 0
  /\ ticks = 0
  /\ minted = 0
  /\ issued = [k \in 1..MaxCodes |-> 0]
  /\ origin = <<>>
  /\ reply = NoReply
  /\ last = NoRequest
  /\ pc = [c \in Conns |-> "idle"]
  /\ ctx = [c \in Conns |-> Idle]
  /\ ret = [c \in Conns |-> [op |-> "none", error |-> "OK", code |-> 0]]
  /\ started = 0
  /\ redis = <<>>
  /\ admitted = <<>>
  /\ revoked = {}
  /\ sharingPermission = NoPermissions

NextConcOAuth ==
  \/ \E c \in Conns, cl \in Clients, secret \in {"secret_p1", "secret_p2"},
        k \in 1..MaxCodes, uri \in RedirectUris : BeginExchangeCode(c, cl, secret, k, uri)
  \/ \E c \in Conns : ValidateClient(c)
  \/ \E c \in Conns : CodeRead(c)
  \/ \E c \in Conns : CodeWrite(c)
  \/ \E m \in TickMinutes : ConcTick(m)

SpecOAuthConc == InitConcOAuth /\ [][NextConcOAuth]_vars

\* ------------------------------------------------------------------ SpecSuspend: a suspension among token requests
\* a connection's refresh request: its arguments and the id of the row it has read
RefreshRequest(clientId, clientSecret, refreshToken) ==
  [op |-> "refreshToken", clientId |-> clientId, clientSecret |-> clientSecret,
   code |-> 0, refreshToken |-> refreshToken, tokenId |-> 0]

\* exchangeCodeForToken with grantType refresh_token, up to validateClient
BeginRefreshToken(c, clientId, clientSecret, refreshToken) ==
  /\ refreshToken \in TokenValues
  /\ Begin(c, RefreshRequest(clientId, clientSecret, refreshToken), "refreshValidate")

RefreshValidate(c) ==
  /\ pc[c] = "refreshValidate"
  /\ IF validateClient(Auth, ctx[c].clientId, ctx[c].clientSecret) # "OK"
     THEN /\ EndAuth(c, ctx[c], validateClient(Auth, ctx[c].clientId, ctx[c].clientSecret))
          /\ StoreAuth(Auth)
     ELSE /\ pc' = [pc EXCEPT ![c] = "refreshRead"]
          /\ UNCHANGED <<dbVars, oauthVars, sideVars, last, ctx, ret, started>>

\* handleRefreshTokenGrant: findUnique by refreshToken and the check of the row
RefreshRead(c) ==
  /\ pc[c] = "refreshRead"
  /\ IF refreshGrantCheck(tokenAt(Auth, findByRefreshToken(Auth, ctx[c].refreshToken)),
                          ctx[c].clientId) # "OK"
     THEN /\ EndAuth(c, ctx[c],
                     refreshGrantCheck(tokenAt(Auth, findByRefreshToken(Auth, ctx[c].refreshToken)),
                                       ctx[c].clientId))
          /\ StoreAuth(Auth)
     ELSE /\ pc' = [pc EXCEPT ![c] = "refreshWrite"]
          /\ ctx' = [ctx EXCEPT ![c].tokenId = findByRefreshToken(Auth, ctx[c].refreshToken)]
          /\ UNCHANGED <<dbVars, oauthVars, sideVars, last, ret, started>>

\* handleRefreshTokenGrant: accessToken.update({ where: { id: token.id } });
\* a row deleted since it was read makes the update throw P2025
RefreshWrite(c) ==
  /\ pc[c] = "refreshWrite"
  /\ IF ~tokenAt(Auth, ctx[c].tokenId).exists
     THEN /\ StoreAuth(Auth)
          /\ EndAuth(c, ctx[c], "P2025")
     ELSE /\ StoreAuth(refreshGrantWrite(Auth, ctx[c].tokenId, now))
          /\ EndAuth(c, ctx[c], "OK")

\* the access token values of the client's rows
tokensOfClient(rows, clientId) ==
  {rows[i].token : i \in {j \in 1..Len(rows) : rows[j].exists /\ rows[j].clientId = clientId}}

\* suspendSubscription while token requests are in flight; the values of the
\* rows its deleteMany removes are remembered
ConcSuspendSubscription(clientId) ==
  /\ clientId \in Clients
  /\ StoreAuth(suspendSubscription(Auth, clientId).auth)
  /\ reply' = Reply("suspendSubscription", 0, suspendSubscription(Auth, clientId))
  /\ revoked' = IF suspendSubscription(Auth, clientId).error = "OK"
                THEN revoked \cup tokensOfClient(accessToken, clientId)
                ELSE revoked
  /\ UNCHANGED <<dbVars, concVars, redis, admitted, sharingPermission, last, now, ticks>>

\* client p1 holds one token of u1, issued from a code that is used; u1 has
\* authorized p1 again and these codes are not exchanged yet
InitSuspend ==
  /\ wallet = [u \in Users |-> NoWallet]
  /\ ledger = [u \in Users |-> <<>>]
  /\ giftType = InitialCatalog
  /\ giftTransaction = <<>>
  /\ marketplace = InitialMarketplace
  /\ stripePayment = [p \in PaymentIds |-> NoPayment]
  /\ apiClient = InitialClients
  /\ subscription = [c \in Clients |-> "active"]
  /\ user = [u \in Users |-> [isActive |-> TRUE]]
  /\ authorizationCode =
       [k \in 1..(MaxCodes + 1) |->
          [exists |-> TRUE, userId |-> "u1", clientId |-> "p1",
           redirectUri |-> "https://p/cb", scopes |-> {"profile"},
           expiresAt |-> codeExpiresAt(0), used |-> (k = MaxCodes + 1)]]
  /\ accessToken =
       <<[exists |-> TRUE, userId |-> "u1", clientId |-> "p1", token |-> 1,
          refreshToken |-> 2, scopes |-> {"profile"}, expiresAt |-> TokenTtlMinutes]>>
  /\ now = 0
  /\ ticks = 0
  /\ minted = 2
  /\ issued = [k \in 1..(MaxCodes + 1) |-> IF k = MaxCodes + 1 THEN 1 ELSE 0]
  /\ origin = <<MaxCodes + 1>>
  /\ reply = NoReply
  /\ last = NoRequest
  /\ pc = [c \in Conns |-> "idle"]
  /\ ctx = [c \in Conns |-> Idle]
  /\ ret = [c \in Conns |-> [op |-> "none", error |-> "OK", code |-> 0]]
  /\ started = 0
  /\ redis = <<>>
  /\ admitted = <<>>
  /\ revoked = {}
  /\ sharingPermission = NoPermissions

NextSuspend ==
  \/ \E c \in Conns, k \in 1..MaxCodes :
        BeginExchangeCode(c, "p1", "secret_p1", k, "https://p/cb")
  \/ \E c \in Conns : ValidateClient(c)
  \/ \E c \in Conns : CodeRead(c)
  \/ \E c \in Conns : CodeWrite(c)
  \/ \E c \in Conns, v \in TokenValues : BeginRefreshToken(c, "p1", "secret_p1", v)
  \/ \E c \in Conns : RefreshValidate(c)
  \/ \E c \in Conns : RefreshRead(c)
  \/ \E c \in Conns : RefreshWrite(c)
  \/ \E cl \in Clients : ConcSuspendSubscription(cl)
  \/ \E cl \in Clients : ReactivateSubscription(cl)
  \/ \E v \in TokenValues : ValidateAccessToken(v)

SpecSuspend == InitSuspend /\ [][NextSuspend]_vars

\* ------------------------------------------------------------------ SpecPrivacy: sharing permissions
\* the field lists a user sends
FieldLists == {<<"email">>, <<"email", "bio">>, <<"password">>}

FinishPrivacy(op, r) ==
  /\ StoreAuth(r.auth)
  /\ sharingPermission' = r.sharingPermission
  /\ reply' = Reply(op, 0, r)
  /\ UNCHANGED <<dbVars, concVars, redis, admitted, last, now, ticks>>

UpdatePermissions(userId, clientId, allowedFields) ==
  /\ UNCHANGED revoked
  /\ FinishPrivacy("updatePermissions",
                   updatePermissions(Auth, sharingPermission, userId, clientId, allowedFields))

\* the access token values of the pair's rows
tokensOfPair(rows, userId, clientId) ==
  {rows[i].token : i \in {j \in 1..Len(rows) : /\ rows[j].exists
                                              /\ rows[j].userId = userId
                                              /\ rows[j].clientId = clientId}}

\* the values of the rows a successful revocation deletes are remembered
RevokePermissions(userId, clientId) ==
  /\ revoked' = IF revokePermissions(Auth, sharingPermission, userId, clientId).error = "OK"
                THEN revoked \cup tokensOfPair(accessToken, userId, clientId)
                ELSE revoked
  /\ FinishPrivacy("revokePermissions",
                   revokePermissions(Auth, sharingPermission, userId, clientId))

\* the code rows before any request: codes 1..MaxCodes of <<u1, p1>> not yet
\* exchanged, one of <<u1, p2>> not yet exchanged, and the two used codes the
\* tokens of <<u1, p1>> and <<u2, p1>> were issued from
InitialCodes ==
  [k \in 1..(MaxCodes + 3) |->
     [exists |-> TRUE,
      userId |-> IF k = MaxCodes + 3 THEN "u2" ELSE "u1",
      clientId |-> IF k = MaxCodes + 1 THEN "p2" ELSE "p1",
      redirectUri |-> IF k = MaxCodes + 1 THEN "https://q/cb" ELSE "https://p/cb",
      scopes |-> {"profile"}, expiresAt |-> codeExpiresAt(0), used |-> (k > MaxCodes + 1)]]

InitialTokens ==
  <<[exists |-> TRUE, userId |-> "u1", clientId |-> "p1", token |-> 1,
     refreshToken |-> 2, scopes |-> {"profile"}, expiresAt |-> TokenTtlMinutes],
    [exists |-> TRUE, userId |-> "u2", clientId |-> "p1", token |-> 3,
     refreshToken |-> 4, scopes |-> {"profile"}, expiresAt |-> TokenTtlMinutes]>>

InitPrivacy ==
  /\ wallet = [u \in Users |-> NoWallet]
  /\ ledger = [u \in Users |-> <<>>]
  /\ giftType = InitialCatalog
  /\ giftTransaction = <<>>
  /\ marketplace = InitialMarketplace
  /\ stripePayment = [p \in PaymentIds |-> NoPayment]
  /\ apiClient = InitialClients
  /\ subscription = [c \in Clients |-> "active"]
  /\ user = [u \in Users |-> [isActive |-> TRUE]]
  /\ authorizationCode = InitialCodes
  /\ accessToken = InitialTokens
  /\ now = 0
  /\ ticks = 0
  /\ minted = 4
  /\ issued = [k \in 1..(MaxCodes + 3) |-> IF k > MaxCodes + 1 THEN 1 ELSE 0]
  /\ origin = <<MaxCodes + 2, MaxCodes + 3>>
  /\ reply = NoReply
  /\ last = NoRequest
  /\ pc = [c \in Conns |-> "idle"]
  /\ ctx = [c \in Conns |-> NoRequest]
  /\ ret = [c \in Conns |-> NoRequest]
  /\ started = 0
  /\ redis = <<>>
  /\ admitted = <<>>
  /\ revoked = {}
  /\ sharingPermission = NoPermissions

NextPrivacy ==
  \/ \E u \in Users, c \in {"p1", "unknown"}, f \in FieldLists : UpdatePermissions(u, c, f)
  \/ \E u \in Users, c \in {"p1", "unknown"} : RevokePermissions(u, c)
  \/ \E k \in 1..MaxCodes : ExchangeCode("p1", "secret_p1", k, "https://p/cb")
  \/ \E v \in TokenValues : RefreshToken("p1", "secret_p1", v)
  \/ \E v \in TokenValues : ValidateAccessToken(v)

SpecPrivacy == InitPrivacy /\ [][NextPrivacy]_vars

\* ------------------------------------------------------------------ SpecRate: enforceSubscriptionLimits
\* limits.rateLimitPerMinute of getSubscriptionLimits(tier)
getSubscriptionLimits(tier) ==
  CASE tier = "basic" -> 100
    [] tier = "premium" -> 500
    [] tier = "enterprise" -> 1000
    [] OTHER -> 10

\* api_clients.subscriptionTier: both clients are on the enterprise tier,
\* which has no monthly limit
subscriptionTier == [c \in Clients |-> "enterprise"]

\* parseInt((await redisClient.get(key)) || '0')
redisGet(r, key) == IF key \in DOMAIN r THEN r[key] ELSE 0

\* redisClient.setEx(key, 60, value): the key now holds value
redisSetEx(r, key, value) ==
  [k \in DOMAIN r \cup {key} |-> IF k = key THEN value ELSE r[k]]

RateRequest(clientId) == [op |-> "enforce", clientId |-> clientId, minute |-> 0, count |-> 0]

RateIdle == [op |-> "none", clientId |-> "null", minute |-> 0, count |-> 0]

RateEnded(req, error) == [op |-> req.op, error |-> error, clientId |-> req.clientId]

EndRate(c, req, error) ==
  /\ pc' = [pc EXCEPT ![c] = "idle"]
  /\ ctx' = [ctx EXCEPT ![c] = RateIdle]
  /\ ret' = [ret EXCEPT ![c] = RateEnded(req, error)]
  /\ UNCHANGED <<dbVars, oauthVars, last, started>>

\* enforceSubscriptionLimits up to the rate limit: the client and its active
\* subscription are read; the enterprise tier skips the monthly limit
BeginEnforce(c, clientId) ==
  /\ pc[c] = "idle" /\ ret[c].op = "none"
  /\ started' = started + 1
  /\ IF clientId \notin DOMAIN apiClient
     THEN /\ pc' = pc /\ ctx' = ctx
          /\ ret' = [ret EXCEPT ![c] = RateEnded(RateRequest(clientId), "CLIENT_NOT_FOUND")]
     ELSE IF subscription[clientId] # "active"
     THEN /\ pc' = pc /\ ctx' = ctx
          /\ ret' = [ret EXCEPT ![c] =
                       RateEnded(RateRequest(clientId), "NO_ACTIVE_SUBSCRIPTION")]
     ELSE /\ pc' = [pc EXCEPT ![c] = "redisGet"]
          /\ ctx' = [ctx EXCEPT ![c] = RateRequest(clientId)]
          /\ ret' = ret
  /\ UNCHANGED <<dbVars, oauthVars, sideVars, last>>

\* the key of the current minute is read: count = stored + 1, and
\* RATE_LIMIT_EXCEEDED when count > limits.rateLimitPerMinute
RedisGet(c) ==
  /\ pc[c] = "redisGet"
  /\ UNCHANGED sideVars
  /\ LET req == [ctx[c] EXCEPT !.minute = now,
                               !.count = redisGet(redis, <<ctx[c].clientId, now>>) + 1]
     IN IF req.count > getSubscriptionLimits(subscriptionTier[req.clientId])
        THEN EndRate(c, req, "RATE_LIMIT_EXCEEDED")
        ELSE /\ pc' = [pc EXCEPT ![c] = "redisSetEx"]
             /\ ctx' = [ctx EXCEPT ![c] = req]
             /\ UNCHANGED <<dbVars, oauthVars, last, ret, started>>

\* the counter is written from the count computed earlier, and the request
\* goes on to next()
RedisSetEx(c) ==
  /\ pc[c] = "redisSetEx"
  /\ redis' = redisSetEx(redis, <<ctx[c].clientId, ctx[c].minute>>, ctx[c].count)
  /\ admitted' = redisSetEx(admitted, <<ctx[c].clientId, ctx[c].minute>>,
                            redisGet(admitted, <<ctx[c].clientId, ctx[c].minute>>) + 1)
  /\ UNCHANGED <<revoked, sharingPermission>>
  /\ EndRate(c, ctx[c], "OK")

\* the clock passes into the next minute
MinuteTick ==
  /\ Tick(1)
  /\ ticks < MaxTicks

\* minute 0: client p1 has made 999 requests, one after the other, all let through
InitRate ==
  /\ wallet = [u \in Users |-> NoWallet]
  /\ ledger = [u \in Users |-> <<>>]
  /\ giftType = InitialCatalog
  /\ giftTransaction = <<>>
  /\ marketplace = InitialMarketplace
  /\ stripePayment = [p \in PaymentIds |-> NoPayment]
  /\ apiClient = InitialClients
  /\ subscription = [c \in Clients |-> "active"]
  /\ user = [u \in Users |-> [isActive |-> TRUE]]
  /\ authorizationCode = <<>>
  /\ accessToken = <<>>
  /\ now = 0
  /\ ticks = 0
  /\ minted = 0
  /\ issued = [k \in 1..MaxCodes |-> 0]
  /\ origin = <<>>
  /\ reply = NoReply
  /\ last = NoRequest
  /\ pc = [c \in Conns |-> "idle"]
  /\ ctx = [c \in Conns |-> RateIdle]
  /\ ret = [c \in Conns |-> RateEnded(RateIdle, "OK")]
  /\ started = 0
  /\ redis = (<<"p1", 0>> :> (getSubscriptionLimits(subscriptionTier["p1"]) - 1))
  /\ admitted = (<<"p1", 0>> :> (getSubscriptionLimits(subscriptionTier["p1"]) - 1))
  /\ revoked = {}
  /\ sharingPermission = NoPermissions

NextRate ==
  \/ \E c \in Conns, cl \in Clients \cup {"unknown"} : BeginEnforce(c, cl)
  \/ \E c \in Conns : RedisGet(c)
  \/ \E c \in Conns : RedisSetEx(c)
  \/ MinuteTick

SpecRate == InitRate /\ [][NextRate]_vars

\* ------------------------------------------------------------------ ledger views
RECURSIVE SumAmounts(_)
SumAmounts(s) == IF s = <<>> THEN 0 ELSE Head(s).amount + SumAmounts(Tail(s))

\* the rows of a wallet's ledger
Entries(u) == {ledger[u][i] : i \in 1..Len(ledger[u])}

GiftDebits(id) ==
  {<<u, e>> \in UNION {{u} \X Entries(u) : u \in Users} :
     e.referenceType = "gift_transaction" /\ e.referenceId = id /\ e.type = "GIFT_SENT"}

GiftCredits(id) ==
  {<<u, e>> \in UNION {{u} \X Entries(u) : u \in Users} :
     e.referenceType = "gift_transaction" /\ e.referenceId = id /\ e.type = "GIFT_RECEIVED"}

GiftAudits(id) ==
  {k \in 1..Len(giftTransaction) : giftTransaction[k].transactionId = id}

GiftIds ==
  {e.referenceId : e \in {x \in UNION {Entries(u) : u \in Users} :
                            x.referenceType = "gift_transaction"}}
    \cup {giftTransaction[k].transactionId : k \in 1..Len(giftTransaction)}

Deposits(paymentId) ==
  {<<u, i>> \in Users \X (1..(MaxLedger + 2)) :
     /\ i <= Len(ledger[u])
     /\ ledger[u][i].type = "DEPOSIT"
     /\ ledger[u][i].referenceType = "stripe_payment"
     /\ ledger[u][i].referenceId = paymentId}

\* the refund debits of a payment: REFUND rows of coins taken from its owner
Refunds(paymentId) ==
  {i \in 1..Len(ledger[stripePayment[paymentId].userId]) :
     LET e == ledger[stripePayment[paymentId].userId][i]
     IN /\ e.type = "REFUND"
        /\ e.referenceType = "stripe_refund"
        /\ e.referenceId = refundId(paymentId)
        /\ e.amount = -stripePayment[paymentId].coins}

\* ------------------------------------------------------------------ claims under Spec and SpecPay

\* C1: with requests run one at a time, after any sequence of addCoins,
\* deductCoins, transferCoins and sendGift calls every wallet's balance equals
\* the sum of the signed amounts of its ledger rows (0 when it has none).
C1_BalanceIsLedgerSum ==
  \A u \in Users : wallet[u].balanceCoins = SumAmounts(ledger[u])

\* a wallet that was credited and debited and still holds coins
C1_Witness ==
  \E u \in Users :
    /\ wallet[u].balanceCoins > 0
    /\ \E c \in Entries(u) : c.amount > 0
    /\ \E e \in Entries(u) : e.amount < 0

\* C3 as stated: a debit of more than the balance of an existing wallet always
\* fails INSUFFICIENT_BALANCE { required: coins, available: balance } and
\* changes no table.
C3_Original ==
  [][\A u \in Users, n \in Amounts :
       (DeductCoins(u, n) /\ wallet[u].exists /\ n > wallet[u].balanceCoins)
         => /\ last'.error = "INSUFFICIENT_BALANCE"
            /\ last'.required = n
            /\ last'.available = wallet[u].balanceCoins
            /\ UNCHANGED dbVars]_vars

\* C3 amended: a debit of more than the balance of an existing wallet never
\* succeeds and changes no table; it fails WALLET_LOCKED when the wallet is
\* locked and otherwise INSUFFICIENT_BALANCE { required: coins, available: balance }.
C3_RejectedDebit ==
  [][\A u \in Users, n \in Amounts :
       (DeductCoins(u, n) /\ wallet[u].exists /\ n > wallet[u].balanceCoins)
         => /\ UNCHANGED dbVars
            /\ wallet[u].isLocked => last'.error = "WALLET_LOCKED"
            /\ ~wallet[u].isLocked =>
                 /\ last'.error = "INSUFFICIENT_BALANCE"
                 /\ last'.required = n
                 /\ last'.available = wallet[u].balanceCoins]_vars

\* a debit of more than a positive balance was just rejected
C3_Witness ==
  /\ last.op = "deductCoins"
  /\ last.error = "INSUFFICIENT_BALANCE"
  /\ last.available > 0
  /\ last.required > last.available
  /\ \E u \in Users : wallet[u].balanceCoins = last.available

\* C6: a gift send applies the sender's debit, the receiver's credit and the
\* audit row together or not at all: every gift id found in a ledger or in
\* gift_transactions has its debit, its credit and its audit row.
C6_GiftAllOrNothing ==
  \A id \in GiftIds :
    /\ GiftDebits(id) # {}
    /\ GiftCredits(id) # {}
    /\ GiftAudits(id) # {}

\* C7: however often the payment_intent.succeeded event of one payment is
\* delivered, the ledger holds at most one DEPOSIT row for that payment.
C7_CreditedOnce ==
  \A p \in PaymentIds : Cardinality(Deposits(p)) <= 1

\* ------------------------------------------------------------------ claims under SpecConc
RECURSIVE RunningBalance(_, _)
\* the sum of the first i amounts of a ledger
RunningBalance(l, i) == IF i = 0 THEN 0 ELSE l[i].amount + RunningBalance(l, i - 1)

Quiescent == \A c \in Conns : pc[c] = "idle"

\* C2: when overlapping requests on one wallet have all ended, balance and
\* ledger are those of a serial order: every ledger row's balanceAfter is the
\* sum of the amounts up to it, and the balance is the sum of all amounts.
C2_SerialOutcome ==
  Quiescent =>
    \A u \in Users :
      /\ wallet[u].balanceCoins = SumAmounts(ledger[u])
      /\ \A i \in 1..Len(ledger[u]) :
           ledger[u][i].balanceAfter = RunningBalance(ledger[u], i)

\* C4: under every interleaving of credits, debits, transfers, gift sends,
\* refunds and lock/unlock requests no wallet's stored balance is negative.
C4_BalanceNonNegative ==
  \A u \in Users : wallet[u].balanceCoins >= 0

\* two overlapping debits have taken more than the wallet held, and the
\* stored balance is still not negative
C4_Witness ==
  \E u \in Users :
    /\ SumAmounts(ledger[u]) < 0
    /\ wallet[u].balanceCoins >= 0
    /\ Cardinality({i \in 1..Len(ledger[u]) : ledger[u][i].amount < 0}) >= 2

\* C5: a transfer that has returned or thrown has debited the sender and
\* credited the receiver, or has done neither.
C5_TransferAllOrNothing ==
  \A c \in Conns :
    ret[c].op = "transferCoins" => (ret[c].debited <=> ret[c].credited)

\* ------------------------------------------------------------------ claims under SpecOAuth and SpecOAuthConc

\* C8: with requests run one at a time, no code is exchanged for more than
\* one token; a used code stays used, and exchanging it again with valid
\* client credentials fails CODE_ALREADY_USED and creates no token.
C8_ExchangedAtMostOnce ==
  [][\A k \in 1..MaxCodes :
       /\ issued'[k] <= 1
       /\ findCode(Auth, k).used =>
            /\ k <= Len(authorizationCode')
            /\ authorizationCode'[k].exists
            /\ authorizationCode'[k].used
            /\ issued'[k] = issued[k]
            /\ \A cl \in Clients, secret \in {"secret_p1", "secret_p2"},
                  uri \in RedirectUris :
                 (ExchangeCode(cl, secret, k, uri) /\ validateClient(Auth, cl, secret) = "OK")
                   => /\ reply'.error = "CODE_ALREADY_USED"
                      /\ accessToken' = accessToken]_vars

\* the second exchange of a code was just refused
C8_Witness ==
  /\ reply.op = "exchangeCode"
  /\ reply.error = "CODE_ALREADY_USED"
  /\ reply.tokens = 0
  /\ findCode(Auth, reply.code).used
  /\ issued[reply.code] = 1
  /\ Len(accessToken) = 1

\* C9: under every interleaving of exchanges of one code, the tokens issued
\* from a code number 1 when its used flag is set and 0 when it is not.
C9_OneTokenIffUsed ==
  \A k \in 1..Len(authorizationCode) :
    issued[k] = IF authorizationCode[k].used THEN 1 ELSE 0

\* C10 as stated: with valid client credentials, the exchange of an existing
\* code whose expiry is in the past fails CODE_EXPIRED and creates no token,
\* used or not, matching client and redirect uri or not.
C10_Original ==
  [][\A k \in 1..MaxCodes, cl \in Clients, secret \in {"secret_p1", "secret_p2"},
        uri \in RedirectUris :
       (/\ ExchangeCode(cl, secret, k, uri)
        /\ validateClient(Auth, cl, secret) = "OK"
        /\ findCode(Auth, k).exists
        /\ findCode(Auth, k).expiresAt < now)
         => /\ reply'.error = "CODE_EXPIRED"
            /\ accessToken' = accessToken]_vars

\* C10 amended: a code expires 10 minutes after its issue; with valid client
\* credentials, the exchange of an existing code whose expiry is in the past
\* creates no token and changes no table, matching client and redirect uri or
\* not; it fails CODE_ALREADY_USED when the code is used and CODE_EXPIRED
\* when it is not.
C10_ExpiredCode ==
  [][/\ \A k \in 1..MaxCodes :
          (Len(authorizationCode) = k - 1 /\ Len(authorizationCode') = k)
            => authorizationCode'[k].expiresAt = now + CodeTtlMinutes
     /\ \A k \in 1..MaxCodes, cl \in Clients, secret \in {"secret_p1", "secret_p2"},
           uri \in RedirectUris :
          (/\ ExchangeCode(cl, secret, k, uri)
           /\ validateClient(Auth, cl, secret) = "OK"
           /\ findCode(Auth, k).exists
           /\ findCode(Auth, k).expiresAt < now)
            => /\ reply'.error =
                    IF findCode(Auth, k).used THEN "CODE_ALREADY_USED" ELSE "CODE_EXPIRED"
               /\ accessToken' = accessToken
               /\ authorizationCode' = authorizationCode
               /\ issued' = issued]_vars

\* the exchange of an unused code was just refused for its age
C10_Witness ==
  /\ reply.op = "exchangeCode"
  /\ reply.error = "CODE_EXPIRED"
  /\ reply.tokens = 0
  /\ findCode(Auth, reply.code).exists
  /\ ~findCode(Auth, reply.code).used
  /\ findCode(Auth, reply.code).expiresAt < now
  /\ accessToken = <<>>

\* C11: the exchange of an unused, unexpired code by an authenticated client
\* that is not the code's client, or with a redirect uri that is not the
\* code's, fails CODE_VALIDATION_FAILED, creates no token and leaves the code
\* unused.
C11_MismatchRejected ==
  [][\A k \in 1..MaxCodes, cl \in Clients, secret \in {"secret_p1", "secret_p2"},
        uri \in RedirectUris :
       (/\ ExchangeCode(cl, secret, k, uri)
        /\ validateClient(Auth, cl, secret) = "OK"
        /\ findCode(Auth, k).exists
        /\ ~findCode(Auth, k).used
        /\ ~(findCode(Auth, k).expiresAt < now)
        /\ (findCode(Auth, k).clientId # cl \/ findCode(Auth, k).redirectUri # uri))
         => /\ reply'.error = "CODE_VALIDATION_FAILED"
            /\ accessToken' = accessToken
            /\ authorizationCode' = authorizationCode
            /\ ~authorizationCode'[k].used]_vars

\* the exchange of a fresh code was just refused for a mismatch
C11_Witness ==
  /\ reply.op = "exchangeCode"
  /\ reply.error = "CODE_VALIDATION_FAILED"
  /\ reply.tokens = 0
  /\ findCode(Auth, reply.code).exists
  /\ ~findCode(Auth, reply.code).used
  /\ ~(findCode(Auth, reply.code).expiresAt < now)
  /\ accessToken = <<>>

\* ------------------------------------------------------------------ claims under SpecToken

\* C12 as stated: a successful refresh rewrites the token's record in place
\* (as many records as before, the others untouched, the record's user and
\* client kept); afterwards the previous token value fails
\* INVALID_ACCESS_TOKEN, the previous refresh value fails
\* INVALID_REFRESH_TOKEN for every client, and the new refresh value passes
\* the refresh check and the new token value validates.
C12_Original ==
  [][(reply'.op = "refreshToken" /\ reply'.error = "OK" /\ minted' # minted)
       => /\ Len(accessToken') = Len(accessToken)
          /\ \E i \in 1..Len(accessToken) :
               /\ accessToken[i].exists /\ accessToken'[i].exists
               /\ \A j \in 1..Len(accessToken) : j # i => accessToken'[j] = accessToken[j]
               /\ accessToken'[i].token # accessToken[i].token
               /\ accessToken'[i].userId = accessToken[i].userId
               /\ accessToken'[i].clientId = accessToken[i].clientId
               /\ validateAccessToken(Auth', now', accessToken[i].token).error
                    = "INVALID_ACCESS_TOKEN"
               /\ \A c \in Clients :
                    refreshGrantCheck(tokenAt(Auth', findByRefreshToken(Auth',
                                        accessToken[i].refreshToken)), c)
                      = "INVALID_REFRESH_TOKEN"
               /\ refreshGrantCheck(tokenAt(Auth', findByRefreshToken(Auth',
                                      accessToken'[i].refreshToken)),
                                    accessToken[i].clientId) = "OK"
               /\ validateAccessToken(Auth', now', accessToken'[i].token).error
                    = "OK"]_vars

\* C12 amended: as above, but the new token value validates only while the
\* token's user is active; for a deactivated user it fails INACTIVE_ACCOUNT.
C12_RefreshInPlace ==
  [][(reply'.op = "refreshToken" /\ reply'.error = "OK" /\ minted' # minted)
       => /\ Len(accessToken') = Len(accessToken)
          /\ \E i \in 1..Len(accessToken) :
               /\ accessToken[i].exists /\ accessToken'[i].exists
               /\ \A j \in 1..Len(accessToken) : j # i => accessToken'[j] = accessToken[j]
               /\ accessToken'[i].token # accessToken[i].token
               /\ accessToken'[i].userId = accessToken[i].userId
               /\ accessToken'[i].clientId = accessToken[i].clientId
               /\ validateAccessToken(Auth', now', accessToken[i].token).error
                    = "INVALID_ACCESS_TOKEN"
               /\ \A c \in Clients :
                    refreshGrantCheck(tokenAt(Auth', findByRefreshToken(Auth',
                                        accessToken[i].refreshToken)), c)
                      = "INVALID_REFRESH_TOKEN"
               /\ refreshGrantCheck(tokenAt(Auth', findByRefreshToken(Auth',
                                      accessToken'[i].refreshToken)),
                                    accessToken[i].clientId) = "OK"
               /\ validateAccessToken(Auth', now', accessToken'[i].token).error
                    = IF user[accessToken[i].userId].isActive
                      THEN "OK" ELSE "INACTIVE_ACCOUNT"]_vars

\* a token of an active user was just refreshed: one record, holding new values
C12_Witness ==
  /\ reply.op = "refreshToken"
  /\ reply.error = "OK"
  /\ Len(accessToken) = 1
  /\ accessToken[1].exists
  /\ accessToken[1].token = minted - 1
  /\ accessToken[1].refreshToken = minted
  /\ minted = 4
  /\ user[accessToken[1].userId].isActive

\* C13: every token record carries exactly the scopes of the authorization
\* code it was issued from, after any exchanges and refreshes, and a
\* successful validation reports those scopes.
C13_ScopesFromCode ==
  \A i \in 1..Len(accessToken) :
    accessToken[i].exists
      => /\ accessToken[i].scopes = authorizationCode[origin[i]].scopes
         /\ validateAccessToken(Auth, now, accessToken[i].token).error = "OK"
              => validateAccessToken(Auth, now, accessToken[i].token).scopes
                   = authorizationCode[origin[i]].scopes

\* a token issued from a code for {"profile"} only, refreshed twice, validates
C13_Witness ==
  /\ Len(accessToken) = 1
  /\ accessToken[1].exists
  /\ Refreshes = 2
  /\ authorizationCode[origin[1]].scopes = {"profile"}
  /\ validateAccessToken(Auth, now, accessToken[1].token).error = "OK"
  /\ validateAccessToken(Auth, now, accessToken[1].token).scopes = {"profile"}

\* C14: validateAccessToken succeeds, returning the record's user, client and
\* scopes, exactly when a record with the value exists, its expiry is not
\* before the clock, and its user and client are both active; it fails
\* INVALID_ACCESS_TOKEN exactly when no record has the value, TOKEN_EXPIRED
\* only for an expired record and INACTIVE_ACCOUNT only for a record whose
\* user or client is inactive; and a validation request leaves every token
\* record, expiry included, as it was.
C14_ValidateIff ==
  /\ [](\A v \in TokenValues :
          /\ validateAccessToken(Auth, now, v).error = "OK"
               <=> \E i \in 1..Len(accessToken) :
                     /\ accessToken[i].exists /\ accessToken[i].token = v
                     /\ ~(accessToken[i].expiresAt < now)
                     /\ user[accessToken[i].userId].isActive
                     /\ apiClient[accessToken[i].clientId].isActive
                     /\ validateAccessToken(Auth, now, v).userId = accessToken[i].userId
                     /\ validateAccessToken(Auth, now, v).clientId = accessToken[i].clientId
                     /\ validateAccessToken(Auth, now, v).scopes = accessToken[i].scopes
          /\ validateAccessToken(Auth, now, v).error = "INVALID_ACCESS_TOKEN"
               <=> ~\E i \in 1..Len(accessToken) :
                      accessToken[i].exists /\ accessToken[i].token = v
          /\ validateAccessToken(Auth, now, v).error = "TOKEN_EXPIRED"
               => \E i \in 1..Len(accessToken) :
                    /\ accessToken[i].exists /\ accessToken[i].token = v
                    /\ accessToken[i].expiresAt < now
          /\ validateAccessToken(Auth, now, v).error = "INACTIVE_ACCOUNT"
               => \E i \in 1..Len(accessToken) :
                    /\ accessToken[i].exists /\ accessToken[i].token = v
                    /\ ~user[accessToken[i].userId].isActive
                         \/ ~apiClient[accessToken[i].clientId].isActive
          /\ validateAccessToken(Auth, now, v).error
               \in {"OK", "INVALID_ACCESS_TOKEN", "TOKEN_EXPIRED", "INACTIVE_ACCOUNT"})
  /\ [][\A v \in TokenValues :
          ValidateAccessToken(v)
            => /\ reply'.error = validateAccessToken(Auth, now, v).error
               /\ accessToken' = accessToken
               /\ UNCHANGED <<authorizationCode, apiClient, subscription, user>>]_vars

\* a token was validated an hour after its expiry: TOKEN_EXPIRED, and the
\* record still carries the expiry it was issued with
C14_Witness ==
  /\ reply.op = "validateAccessToken"
  /\ reply.error = "TOKEN_EXPIRED"
  /\ Len(accessToken) = 1
  /\ accessToken[1].exists
  /\ accessToken[1].expiresAt = TokenTtlMinutes
  /\ now = 2 * TokenTtlMinutes
  /\ Refreshes = 0

\* C15: a code exchange or a refresh made with the client's own id and secret
\* while the client's subscription is not active fails SUBSCRIPTION_INACTIVE
\* and issues or rewrites no token.
C15_SubscriptionInactive ==
  [][\A c \in Clients :
       subscription[c] # "active"
         => /\ \A k \in 1..MaxCodes, uri \in RedirectUris :
                 ExchangeCode(c, apiClient[c].clientSecret, k, uri)
                   => /\ reply'.error = "SUBSCRIPTION_INACTIVE"
                      /\ accessToken' = accessToken
            /\ \A v \in TokenValues :
                 RefreshToken(c, apiClient[c].clientSecret, v)
                   => /\ reply'.error = "SUBSCRIPTION_INACTIVE"
                      /\ accessToken' = accessToken]_vars

\* C20: revoking an existing token deletes its record, after which validating
\* that value fails INVALID_ACCESS_TOKEN; revoking a value no record holds
\* (an unknown one, or the same one again) succeeds and changes nothing;
\* either way every other token record, and every other table, is unchanged.
C20_RevokeIdempotent ==
  [][\A v \in TokenValues :
       RevokeToken(v)
         => /\ reply'.error = "OK"
            /\ validateAccessToken(Auth', now', v).error = "INVALID_ACCESS_TOKEN"
            /\ revokeToken(Auth', v).auth = Auth'
            /\ Len(accessToken') = Len(accessToken)
            /\ \A j \in 1..Len(accessToken) :
                 IF accessToken[j].exists /\ accessToken[j].token = v
                 THEN ~accessToken'[j].exists
                 ELSE accessToken'[j] = accessToken[j]
            /\ (findByToken(Auth, v) = 0) => accessToken' = accessToken
            /\ UNCHANGED <<authorizationCode, apiClient, subscription, user>>]_vars

\* the one token was revoked just now, after a refresh: its record is gone
C20_Witness ==
  /\ reply.op = "revokeToken"
  /\ reply.error = "OK"
  /\ Len(accessToken) = 1
  /\ ~accessToken[1].exists
  /\ Refreshes = 1

\* ------------------------------------------------------------------ claims under Spec, continued

\* C18: while a wallet is locked, every debit of a positive amount from it (a
\* deduction, the sending side of a transfer, the sending side of a gift that
\* passed the gift checks) fails WALLET_LOCKED and changes no table, while a
\* credit of a positive amount to it succeeds and raises its balance; a debit
\* from an unlocked wallet succeeds when the balance covers it; and lockWallet
\* and unlockWallet change nothing but the wallet's isLocked (nothing at all,
\* failing P2025, when the user has no wallet).
C18_LockBlocksDebits ==
  /\ [](\A f \in Users :
          (wallet[f].exists /\ wallet[f].isLocked)
            => /\ \A t \in Users \ {f}, n \in Amounts \ {0} :
                    /\ transferCoins(DB, f, t, n, freshId).error = "WALLET_LOCKED"
                    /\ transferCoins(DB, f, t, n, freshId).db = DB
               /\ \A t \in Users, g \in Gifts, p \in Platforms, q \in Quantities :
                    sendGiftCheck(findGiftType(DB, g), f, t, p, q) = "OK"
                      => /\ sendGift(DB, f, t, g, p, q, freshId).error = "WALLET_LOCKED"
                         /\ sendGift(DB, f, t, g, p, q, freshId).db = DB
               /\ \A n \in Amounts \ {0} :
                    /\ addCoins(DB, f, n, "BONUS", "manual_bonus", "bonus").error = "OK"
                    /\ addCoins(DB, f, n, "BONUS", "manual_bonus", "bonus").db.wallet[f]
                         = [wallet[f] EXCEPT !.balanceCoins = @ + n,
                                             !.totalEarned = @ + n])
  /\ [][/\ \A u \in Users, n \in Amounts :
             (DeductCoins(u, n) /\ n > 0 /\ wallet[u].exists)
               => IF wallet[u].isLocked
                  THEN last'.error = "WALLET_LOCKED" /\ UNCHANGED dbVars
                  ELSE n <= wallet[u].balanceCoins
                         => /\ last'.error = "OK"
                            /\ wallet'[u].balanceCoins = wallet[u].balanceCoins - n
                            /\ Len(ledger'[u]) = Len(ledger[u]) + 1
        /\ \A u \in Users :
             LockWallet(u)
               => /\ UNCHANGED <<ledger, giftType, giftTransaction, marketplace,
                                 stripePayment>>
                  /\ IF wallet[u].exists
                     THEN last'.error = "OK"
                          /\ wallet' = [wallet EXCEPT ![u].isLocked = TRUE]
                     ELSE last'.error = "P2025" /\ wallet' = wallet
        /\ \A u \in Users :
             UnlockWallet(u)
               => /\ UNCHANGED <<ledger, giftType, giftTransaction, marketplace,
                                 stripePayment>>
                  /\ IF wallet[u].exists
                     THEN last'.error = "OK"
                          /\ wallet' = [wallet EXCEPT ![u].isLocked = FALSE]
                     ELSE last'.error = "P2025" /\ wallet' = wallet]_vars

\* a debit that the balance would cover was just refused: the wallet is locked
C18_Witness ==
  /\ last.op = "deductCoins"
  /\ last.error = "WALLET_LOCKED"
  /\ \E u \in Users :
       /\ wallet[u].exists /\ wallet[u].isLocked
       /\ wallet[u].balanceCoins > 0
       /\ Len(ledger[u]) = 1

\* ------------------------------------------------------------------ claims under SpecGift

\* C16: a successful gift send of quantity q of a gift priced p on a platform
\* whose share is r (the marketplace row's share; 10% when the platform has
\* no row) debits the sender p*q + round(p*q*1.5%) and credits the receiver
\* p*q - round(p*q*r) - round(p*q*1.5%), and records round(p*q*r) as the
\* platform fee.
C16_GiftFees ==
  [][(last'.op = "sendGift" /\ last'.error = "OK"
        /\ Len(giftTransaction') = Len(giftTransaction) + 1)
       => LET row == giftTransaction'[Len(giftTransaction')]
              total == giftType[row.giftTypeId].priceCoins * row.quantity
              r == IF row.platformId \in DOMAIN marketplace
                   THEN marketplace[row.platformId] ELSE DefaultRevenueSharePct
              fee == MathRound(total * r, 100)
              swf == MathRound(total * 15, 1000)
          IN /\ row.totalCoins = total
             /\ row.platformFee = fee
             /\ row.socialWalletFee = swf
             /\ wallet'[row.fromUserId].balanceCoins
                  = wallet[row.fromUserId].balanceCoins - (total + swf)
             /\ wallet'[row.toUserId].balanceCoins
                  = wallet[row.toUserId].balanceCoins + (total - fee - swf)]_vars

\* C17: a gift send that passes the checks made before the stock check, for a
\* limited gift whose remaining stock maxQuantity - soldQuantity (a cap of
\* zero and a sold-out cap included) is less than the quantity, fails
\* INSUFFICIENT_QUANTITY and changes no table.
C17_StockCap ==
  [][\A f \in Users, t \in Users, g \in Gifts \cup NewGifts, p \in Platforms,
        q \in Quantities :
       (/\ SendGift(f, t, g, p, q)
        /\ f # t /\ q > 0 /\ q <= GiftMaxQuantity
        /\ findGiftType(DB, g).isActive
        /\ findGiftType(DB, g).platformId \in {"null", p}
        /\ findGiftType(DB, g).isLimited
        /\ q > findGiftType(DB, g).maxQuantity - findGiftType(DB, g).soldQuantity)
         => last'.error = "INSUFFICIENT_QUANTITY" /\ UNCHANGED dbVars]_vars

\* ------------------------------------------------------------------ claims under SpecPayConc

\* C19: once no request is in flight, a payment is marked SUCCEEDED exactly
\* when a wallet holds its DEPOSIT ledger row: the credit and the mark were
\* applied together or not at all, whichever step of handlePaymentSuccess failed.
C19_CreditAndMarkTogether ==
  Quiescent
    => \A p \in PaymentIds :
         stripePayment[p].exists
           => (stripePayment[p].status = "SUCCEEDED" <=> Deposits(p) # {})

\* ------------------------------------------------------------------ claims under SpecAuthorize

\* C21: initiateAuthorization fails INVALID_CLIENT for an unknown or inactive
\* client and INVALID_REDIRECT_URI for a redirect uri outside the client's
\* callback urls, and answers login-required when no user is given, each
\* time creating no code; with a user it appends exactly one code row:
\* unused, for that user and client, with the requested scopes, the given
\* redirect uri and an expiry 10 minutes after the clock; no existing code
\* row and no token changes.
C21_OneCodeOrNone ==
  [][\A c \in Clients \cup {"unknown"}, uri \in RedirectUris, sc \in ScopeSets,
        u \in Owners \cup {"null"} :
       InitiateAuthorization(c, uri, sc, u)
         => /\ accessToken' = accessToken
            /\ IF ~(c \in DOMAIN apiClient /\ apiClient[c].isActive)
               THEN reply'.error = "INVALID_CLIENT"
                    /\ authorizationCode' = authorizationCode
               ELSE IF uri \notin apiClient[c].callbackUrls
               THEN reply'.error = "INVALID_REDIRECT_URI"
                    /\ authorizationCode' = authorizationCode
               ELSE IF u = "null"
               THEN reply'.error = "REQUIRES_LOGIN"
                    /\ authorizationCode' = authorizationCode
               ELSE /\ reply'.error = "OK"
                    /\ authorizationCode'
                         = Append(authorizationCode,
                                  [exists |-> TRUE, userId |-> u, clientId |-> c,
                                   redirectUri |-> uri, scopes |-> sc,
                                   expiresAt |-> now + 10, used |-> FALSE])]_vars

\* a code was just created twenty minutes into the run: it expires at minute 30
C21_Witness ==
  /\ reply.op = "initiateAuthorization"
  /\ reply.error = "OK"
  /\ now = 20
  /\ Len(authorizationCode) = 1
  /\ ~authorizationCode[1].used
  /\ authorizationCode[1].expiresAt = 30
  /\ authorizationCode[1].scopes = {"profile"}

\* ------------------------------------------------------------------ claims under SpecRate

\* C22: for every client and every minute, however the requests interleave,
\* enforceSubscriptionLimits lets through at most the rate limit of the
\* client's tier.
C22_RateLimit ==
  \A key \in DOMAIN admitted :
    admitted[key] <= getSubscriptionLimits(subscriptionTier[key[1]])

\* ------------------------------------------------------------------ claims under SpecLedger

\* C23: across addCoins, deductCoins, transferCoins, sendGift, payment and
\* refund requests every step leaves each wallet's existing ledger rows as
\* they were and in place, only ever adding rows behind them; a successful
\* addCoins or deductCoins adds exactly one row, and a failed one none.
C23_AppendOnly ==
  [][/\ \A u \in Users :
          /\ Len(ledger'[u]) >= Len(ledger[u])
          /\ SubSeq(ledger'[u], 1, Len(ledger[u])) = ledger[u]
     /\ last'.op \in {"addCoins", "deductCoins"}
          => LedgerRows(ledger', Users)
               = LedgerRows(ledger, Users) + (IF last'.error = "OK" THEN 1 ELSE 0)]_vars

\* a wallet was credited by a payment and then debited: its ledger holds the
\* DEPOSIT row first and the debit behind it
C23_Witness ==
  \E u \in Users :
    /\ Len(ledger[u]) = 2
    /\ ledger[u][1].type = "DEPOSIT"
    /\ ledger[u][2].amount < 0
    /\ last.error = "OK"

\* C24 (as stated): some unit price, quantity and platform share, among the
\* listed ones or among the gifts and shares the tables hold, make the gift
\* total differ by one coin from platform fee + social wallet fee + the
\* amount credited to the receiver.
FeePrices == 1..100
FeeQuantities == 1..10
FeeShares == 0..100

C24_Original ==
  \/ \E price \in FeePrices, quantity \in FeeQuantities, share \in FeeShares :
       LET gift == [priceCoins |-> price]
           d == [marketplace |-> [p1 |-> share]]
       IN totalGiftCost(gift, quantity)
            - (platformFee(d, gift, "p1", quantity) + socialWalletFee(gift, quantity)
                 + receiverAmount(d, gift, "p1", quantity)) \in {-1, 1}
  \/ \E g \in DOMAIN giftType, p \in Platforms, quantity \in FeeQuantities :
       totalGiftCost(giftType[g], quantity)
         - (platformFee(DB, giftType[g], p, quantity) + socialWalletFee(giftType[g], quantity)
              + receiverAmount(DB, giftType[g], p, quantity)) \in {-1, 1}

\* C24: every completed gift send credits the receiver one ledger row of type
\* GIFT_RECEIVED whose amount, added to the platform fee and the social wallet
\* fee recorded in the audit row, is exactly the gift total: the two fees are
\* rounded independently, and the receiver's amount is what is left.
C24_FeesSumToTotal ==
  [][(last'.op = "sendGift" /\ last'.error = "OK"
        /\ Len(giftTransaction') = Len(giftTransaction) + 1)
       => LET row == giftTransaction'[Len(giftTransaction')]
              credits == ledger'[row.toUserId]
              credit == credits[Len(credits)]
          IN /\ Len(credits) = Len(ledger[row.toUserId]) + 1
             /\ credit.type = "GIFT_RECEIVED"
             /\ credit.referenceId = row.transactionId
             /\ row.totalCoins = row.platformFee + row.socialWalletFee + credit.amount]_vars

\* a completed send whose social wallet fee was rounded up: 100 coins, fee 2
C24_Witness ==
  /\ last.op = "sendGift" /\ last.error = "OK"
  /\ \E i \in 1..Len(giftTransaction) :
       /\ giftTransaction[i].totalCoins = 100
       /\ giftTransaction[i].socialWalletFee = 2
       /\ \E j \in 1..Len(ledger[giftTransaction[i].toUserId]) :
            /\ ledger[giftTransaction[i].toUserId][j].referenceId
                 = giftTransaction[i].transactionId
            /\ ledger[giftTransaction[i].toUserId][j].amount = 88

\* C30 (as stated): for every completed gift send, the coins debited from the
\* sender minus the coins credited to the receiver equal platformFee +
\* socialWalletFee of the send's audit row.
C30_Original ==
  [][(last'.op = "sendGift" /\ last'.error = "OK"
        /\ Len(giftTransaction') = Len(giftTransaction) + 1)
       => LET row == giftTransaction'[Len(giftTransaction')]
              debit == ledger'[row.fromUserId][Len(ledger'[row.fromUserId])]
              credit == ledger'[row.toUserId][Len(ledger'[row.toUserId])]
          IN (-debit.amount) - credit.amount = row.platformFee + row.socialWalletFee]_vars

\* C30: for every completed gift send, the sender's GIFT_SENT row and the
\* receiver's GIFT_RECEIVED row carry the send's transaction id, and the coins
\* debited minus the coins credited equal platformFee + 2 * socialWalletFee of
\* the audit row: the social wallet fee is added to the sender's charge and
\* also taken off the receiver's amount.
C30_FeesCollected ==
  [][(last'.op = "sendGift" /\ last'.error = "OK"
        /\ Len(giftTransaction') = Len(giftTransaction) + 1)
       => LET row == giftTransaction'[Len(giftTransaction')]
              debit == ledger'[row.fromUserId][Len(ledger'[row.fromUserId])]
              credit == ledger'[row.toUserId][Len(ledger'[row.toUserId])]
          IN /\ debit.type = "GIFT_SENT" /\ debit.referenceId = row.transactionId
             /\ credit.type = "GIFT_RECEIVED" /\ credit.referenceId = row.transactionId
             /\ Len(ledger'[row.fromUserId]) = Len(ledger[row.fromUserId]) + 1
             /\ (-debit.amount) - credit.amount
                  = row.platformFee + 2 * row.socialWalletFee]_vars

\* a completed send of 200 coins: 203 debited, 177 credited, fees 20 and 3
C30_Witness ==
  /\ last.op = "sendGift" /\ last.error = "OK"
  /\ \E i \in 1..Len(giftTransaction) :
       LET row == giftTransaction[i]
       IN /\ row.platformFee = 20 /\ row.socialWalletFee = 3
          /\ \E j \in 1..Len(ledger[row.fromUserId]) :
               /\ ledger[row.fromUserId][j].referenceId = row.transactionId
               /\ ledger[row.fromUserId][j].amount = -203
          /\ \E j \in 1..Len(ledger[row.toUserId]) :
               /\ ledger[row.toUserId][j].referenceId = row.transactionId
               /\ ledger[row.toUserId][j].amount = 177

\* ------------------------------------------------------------------ claims under SpecConc (gifts)

\* C28: a limited gift that has a cap never has a sold count above the cap,
\* however the steps of concurrent gift sends interleave.
C28_SoldWithinCap ==
  \A g \in DOMAIN giftType :
    (giftType[g].isLimited /\ giftType[g].maxQuantity > 0)
      => giftType[g].soldQuantity <= giftType[g].maxQuantity

\* ------------------------------------------------------------------ claims under SpecPay (refunds)

\* C29: a payment in status REFUNDED has exactly one REFUND row of
\* -payment.coins in its owner's ledger: a refund whose wallet debit fails
\* leaves the payment's status as it was.
C29_RefundedHasDebit ==
  \A p \in PaymentIds :
    (stripePayment[p].exists /\ stripePayment[p].status = "REFUNDED")
      => Cardinality(Refunds(p)) = 1

\* ------------------------------------------------------------------ claims under SpecSuspend

\* C27: an access token value that a client's row held when the client was
\* suspended never validates again, during the suspension or after a
\* reactivation, however exchanges and refreshes in flight interleave.
C27_RevokedStayInvalid ==
  \A v \in revoked : validateAccessToken(Auth, now, v).error # "OK"

\* p1 is active again and holds a token row, and a value deleted by the
\* suspension has just been refused
C27_Witness ==
  /\ revoked # {}
  /\ apiClient["p1"].isActive /\ subscription["p1"] = "active"
  /\ tokensOfClient(accessToken, "p1") # {}
  /\ reply.op = "validateAccessToken" /\ reply.error = "INVALID_ACCESS_TOKEN"

\* ------------------------------------------------------------------ claims under SpecPrivacy

\* C25: an updatePermissions call that succeeds with fewer allowed fields than
\* the pair's stored permission held before the call leaves no access token
\* row of the pair.
C25_ReducedPermissionRevokes ==
  [][\A u \in Users, c \in Clients, f \in FieldLists :
       (/\ UpdatePermissions(u, c, f)
        /\ reply'.error = "OK"
        /\ sharingPermission[<<u, c>>].exists
        /\ Len(f) < Len(sharingPermission[<<u, c>>].allowedFields))
         => tokensOfPair(accessToken', u, c) = {}]_vars

\* C26: a revokePermissions call of a pair that succeeds leaves no access
\* token row and no unused authorization code row of the pair; every token the
\* pair held fails validateAccessToken and the refresh grant, every code of
\* the pair fails the code grant, and the rows of other pairs and the pair's
\* used codes are as before. A token value deleted this way never validates
\* again.
C26_RevokeRemovesGrants ==
  /\ [](\A v \in revoked : validateAccessToken(Auth, now, v).error # "OK")
  /\ [][\A u \in Users, c \in Clients :
          (/\ reply'.op = "revokePermissions" /\ reply'.error = "OK"
           /\ sharingPermission[<<u, c>>].exists
           /\ ~sharingPermission'[<<u, c>>].exists)
            => /\ tokensOfPair(accessToken', u, c) = {}
               /\ Len(accessToken') = Len(accessToken)
               /\ Len(authorizationCode') = Len(authorizationCode)
               /\ \A i \in 1..Len(accessToken) :
                    IF accessToken[i].userId = u /\ accessToken[i].clientId = c
                    THEN /\ validateAccessToken(Auth', now', accessToken[i].token).error # "OK"
                         /\ \A secret \in {"secret_p1", "secret_p2"} :
                              exchangeRefreshToken(Auth', now', c, secret,
                                                   accessToken[i].refreshToken).error # "OK"
                    ELSE accessToken'[i] = accessToken[i]
               /\ \A k \in 1..Len(authorizationCode) :
                    /\ (authorizationCode[k].userId = u /\ authorizationCode[k].clientId = c)
                         => /\ ~(authorizationCode'[k].exists /\ ~authorizationCode'[k].used)
                            /\ \A cl \in Clients, secret \in {"secret_p1", "secret_p2"},
                                  uri \in RedirectUris :
                                 exchangeCodeForToken(Auth', now', cl, secret, k, uri).error
                                   # "OK"
                    /\ ~(/\ authorizationCode[k].userId = u
                         /\ authorizationCode[k].clientId = c
                         /\ ~authorizationCode[k].used)
                         => authorizationCode'[k] = authorizationCode[k]]_vars

\* u1 has revoked p1: its token and its unused code are gone, the token of
\* <<u2, p1>> and the code of <<u1, p2>> are still there, and the deleted
\* token has just been refused
C26_Witness ==
  /\ 1 \in revoked
  /\ ~sharingPermission[<<"u1", "p1">>].exists
  /\ tokensOfPair(accessToken, "u1", "p1") = {}
  /\ tokensOfPair(accessToken, "u2", "p1") # {}
  /\ ~authorizationCode[1].exists
  /\ authorizationCode[MaxCodes + 1].exists
  /\ reply.op = "validateAccessToken" /\ reply.error = "INVALID_ACCESS_TOKEN"

====
